---- MODULE Spec2Model ----
(***************************************************************************)
(* Model of the native query core of the FiloDB part-key index:            *)
(*   state.rs   IndexHandle, execute_cachable_query, the doc-set cache     *)
(*   cache.rs   CachableQuery, should_cache, to_query, the weighter        *)
(*   reader.rs  refreshReaders and the query entry points                  *)
(*   reader/    the collectors and the column cache                        *)
(* Several host threads call into one IndexHandle concurrently.            *)
(***************************************************************************)
EXTENDS Integers, Naturals, Sequences, FiniteSets, TLC

\* ---------------------------------------------------------------- bounds
\* Number of host threads that call into the handle.
NumThreads == 2
\* Number of calls (queries and refreshes) started in one behaviour.
MaxCalls == 2
\* Number of segments the writer ever commits.
MaxSegs == 3

Threads == 1..NumThreads

\* ------------------------------------------------------ tuning constants
QUERY_CACHE_MAX_SIZE_BYTES == 50000000
QUERY_CACHE_AVG_ITEM_SIZE == 31250
QUERY_CACHE_ESTIMATED_ITEM_COUNT ==
    QUERY_CACHE_MAX_SIZE_BYTES \div QUERY_CACHE_AVG_ITEM_SIZE

\* size_of::<(SegmentId, CachableQuery)>() and size_of::<Box<[T]>>() on the
\* 64-bit target the unit tests of cache.rs are written for (40 - 8, 58 - 42).
KeyStructSize == 32
BoxOverhead == 16
\* size_of::<i32>()
SizeOfI32 == 4

\* usize::MAX, the "no limit" of partIdsEndedBefore.  It only enters
\* comparisons with, and subtractions of, vector lengths; the largest integer
\* of the checker stands in for 2^64 - 1.
UsizeMax == 2147483647

\* ---------------------------------------------------------- field names
PART_ID == "__partIdDv__"
PART_KEY == "__partKey__"
START_TIME == "__startTime__"
END_TIME == "__endTime__"
\* A label column of the test schema (test_utils::COL1_NAME).
COL1 == "col1"

\* The schema of the handle: every reserved field is declared.
HandleSchema == {PART_ID, PART_KEY, START_TIME, END_TIME, COL1}

\* ------------------------------------------------------- CachableQuery
\* One record shape for all variants; the payload fields a variant does not
\* have are empty.
Complex(b) == [variant |-> "Complex", bytes |-> b, ids |-> <<>>, num |-> 0]
ByPartKey(b) == [variant |-> "ByPartKey", bytes |-> b, ids |-> <<>>, num |-> 0]
ByPartIds(v) == [variant |-> "ByPartIds", bytes |-> <<>>, ids |-> v, num |-> 0]
ByEndTime(t) == [variant |-> "ByEndTime", bytes |-> <<>>, ids |-> <<>>, num |-> t]
ByPartId(x) == [variant |-> "ByPartId", bytes |-> <<>>, ids |-> <<>>, num |-> x]
All == [variant |-> "All", bytes |-> <<>>, ids |-> <<>>, num |-> 0]

Variants == {"Complex", "ByPartKey", "ByPartIds", "ByEndTime", "ByPartId", "All"}

\* Serialized payloads of Complex queries.  <<1, 0>> is the payload of
\* test_complex_query (an empty boolean query); LabelPayload stands for a
\* well-formed payload that selects COL1 = "a"; BadPayload for a malformed one.
EmptyPayload == <<1, 0>>
LabelPayload == <<1, 2, 97, 0>>
BadPayload == <<255>>

\* The queries the host issues in the model.
Queries ==
    { All, ByPartId(1), ByPartKey(<<65>>),
      ByPartIds(<<1, 2>>), ByPartIds(<<2, 1>>), ByEndTime(10),
      Complex(LabelPayload), Complex(BadPayload) }

should_cache_inverted(q) ==
    CASE q.variant = "Complex" -> TRUE
      [] q.variant = "ByPartIds" -> TRUE
      [] q.variant = "ByEndTime" -> FALSE
      [] q.variant = "All" -> FALSE
      [] q.variant = "ByPartId" -> FALSE
      [] q.variant = "ByPartKey" -> TRUE

should_cache(q) ==
    CASE q.variant = "Complex" -> TRUE
      [] q.variant = "ByPartIds" -> TRUE
      [] q.variant = "ByEndTime" -> TRUE
      [] q.variant = "All" -> FALSE
      [] q.variant = "ByPartId" -> FALSE
      [] q.variant = "ByPartKey" -> FALSE

\* ------------------------------------------------------ compiled queries
\* Box<dyn Query> / Box<dyn Weight>: the shape of the query and its terms.
NoTerm == <<>>
MkQuery(kind, field, bterm, iterms, lo, hi) ==
    [kind |-> kind, field |-> field, bterm |-> bterm, iterms |-> iterms,
     lo |-> lo, hi |-> hi]
None == MkQuery("None", "", NoTerm, <<>>, 0, 0)

Ok(v) == [ok |-> TRUE, val |-> v, err |-> ""]
Err(e) == [ok |-> FALSE, val |-> None, err |-> e]

\* query::parse_query on the three payloads of the model.
parse_query(bytes, schema) ==
    IF bytes = EmptyPayload
    THEN Ok(MkQuery("EmptyQuery", "", NoTerm, <<>>, 0, 0))
    ELSE IF bytes = LabelPayload
    THEN IF COL1 \in schema
         THEN Ok(MkQuery("TermQuery", COL1, <<97>>, <<>>, 0, 0))
         ELSE Err("ParseError")
    ELSE Err("ParseError")

get_field_lenient(schema, name) == Ok(None)

\* Schema::get_field
get_field(schema, name) ==
    IF name \in schema THEN Ok(None) ELSE Err("SchemaFieldNotFound")

to_query_exclusive_end(q, schema) ==
    CASE q.variant = "Complex" -> parse_query(q.bytes, schema)
      [] q.variant = "ByPartKey" ->
           IF get_field(schema, PART_KEY).ok
           THEN Ok(MkQuery("TermQuery", PART_KEY, q.bytes, <<>>, 0, 0))
           ELSE get_field(schema, PART_KEY)
      [] q.variant = "ByPartIds" ->
           IF get_field(schema, PART_ID).ok
           THEN Ok(MkQuery("TermSetQuery", PART_ID, NoTerm, q.ids, 0, 0))
           ELSE get_field(schema, PART_ID)
      [] q.variant = "All" -> Ok(MkQuery("AllQuery", "", NoTerm, <<>>, 0, 0))
      [] q.variant = "ByPartId" ->
           IF get_field(schema, PART_ID).ok
           THEN Ok(MkQuery("TermQuery", PART_ID, NoTerm, <<q.num>>, 0, 0))
           ELSE get_field(schema, PART_ID)
      [] q.variant = "ByEndTime" ->
           Ok(MkQuery("RangeQuery", END_TIME, NoTerm, <<>>, 0, q.num - 1))

to_query(q, schema) ==
    CASE q.variant = "Complex" -> parse_query(q.bytes, schema)
      [] q.variant = "ByPartKey" ->
           IF get_field(schema, PART_KEY).ok
           THEN Ok(MkQuery("TermQuery", PART_KEY, q.bytes, <<>>, 0, 0))
           ELSE get_field(schema, PART_KEY)
      [] q.variant = "ByPartIds" ->
           IF get_field(schema, PART_ID).ok
           THEN Ok(MkQuery("TermSetQuery", PART_ID, NoTerm, q.ids, 0, 0))
           ELSE get_field(schema, PART_ID)
      [] q.variant = "All" -> Ok(MkQuery("AllQuery", "", NoTerm, <<>>, 0, 0))
      [] q.variant = "ByPartId" ->
           IF get_field(schema, PART_ID).ok
           THEN Ok(MkQuery("TermQuery", PART_ID, NoTerm, <<q.num>>, 0, 0))
           ELSE get_field(schema, PART_ID)
      [] q.variant = "ByEndTime" ->
           Ok(MkQuery("RangeQuery", END_TIME, NoTerm, <<>>, 0, q.num))

\* query.weight(scoring): scoring is disabled, the weight keeps the shape of
\* the query.  A range query resolves its field name only here.
query_weight_of(query, schema) ==
    IF query.kind = "RangeQuery" /\ query.field \notin schema
    THEN Err("FieldNotFound")
    ELSE Ok(query)

\* -------------------------------------------------------------- segments
\* Segments are immutable; the content of a segment is a function of its id.
\* A doc carries a part id, a part key, start and end time and the label COL1.
\* Column::first(doc) is an Option: <<v>> for Some(v), <<>> for None.  The
\* part key and the label are byte strings, <<>> when the doc has none.
NoVal == <<>>
DocIds == {0, 1}

MkDoc(pid, pkey, st, et, lab) ==
    [part_id |-> pid, part_key |-> pkey, start_time |-> st, end_time |-> et,
     col1 |-> lab]

\* The segments the writer commits are numbered from 1; the numbers from
\* FirstSparse on are segments in which no doc has a value for one column.
FirstSparse == 10

SegmentKind(s) == IF s >= FirstSparse THEN s ELSE s % 3

\* SegmentReader::max_doc: two large segments (bitsets of 25,000,000 and
\* 18,750,000 bytes) and one whose bitset alone weighs as much as the whole
\* budget of the doc-set cache.
max_doc(s) ==
    CASE SegmentKind(s) = 1 -> 200000000
      [] SegmentKind(s) = 2 -> 150000000
      [] SegmentKind(s) >= FirstSparse -> 150000000
      [] OTHER -> 400000000

\* The alive docs of the segment.
SegDocs(s) ==
    CASE SegmentKind(s) = 1 ->
           (0 :> MkDoc(<<1>>, <<65>>, <<1>>, <<5>>, <<97>>)
            @@ 1 :> MkDoc(<<2>>, <<66>>, <<2>>, <<20>>, <<98>>))
      [] SegmentKind(s) = 2 ->
           (0 :> MkDoc(<<3>>, <<67>>, <<3>>, <<7>>, <<97>>)
            @@ 1 :> MkDoc(NoVal, <<65>>, <<4>>, <<-1>>, <<97>>))
      [] SegmentKind(s) = FirstSparse ->
           (0 :> MkDoc(<<4>>, NoVal, <<6>>, <<9>>, <<97>>))
      [] SegmentKind(s) = FirstSparse + 1 ->
           (0 :> MkDoc(<<5>>, <<69>>, NoVal, <<9>>, <<97>>))
      [] SegmentKind(s) = FirstSparse + 2 ->
           (0 :> MkDoc(<<6>>, <<70>>, <<6>>, NoVal, <<97>>))
      [] OTHER ->
           (0 :> MkDoc(NoVal, <<68>>, <<5>>, <<8>>, <<98>>))

\* The fast-field columns the segment has: a column exists when some doc of
\* the segment has a value for it.
SegColumns(s) ==
    LET docs == SegDocs(s)
        has(f) == \E d \in DOMAIN docs :
                     CASE f = PART_ID -> docs[d].part_id # NoVal
                       [] f = PART_KEY -> docs[d].part_key # NoVal
                       [] f = START_TIME -> docs[d].start_time # NoVal
                       [] f = END_TIME -> docs[d].end_time # NoVal
                       [] OTHER -> docs[d].col1 # NoVal
    IN {f \in {PART_ID, PART_KEY, START_TIME, END_TIME, COL1} : has(f)}

\* Weight::for_each_no_score(segment_reader, ...): the docs of the segment
\* the compiled query matches.
Matches(w, s) ==
    LET docs == SegDocs(s) IN
    CASE w.kind = "AllQuery" -> DOMAIN docs
      [] w.kind = "EmptyQuery" -> {}
      [] w.kind = "TermQuery" /\ w.field = PART_KEY ->
           {d \in DOMAIN docs : docs[d].part_key # NoVal
                                /\ docs[d].part_key = w.bterm}
      [] w.kind = "TermQuery" /\ w.field = COL1 ->
           {d \in DOMAIN docs : docs[d].col1 = w.bterm}
      [] w.kind = "TermQuery" /\ w.field = PART_ID ->
           {d \in DOMAIN docs : docs[d].part_id = <<w.iterms[1]>>}
      [] w.kind = "TermSetQuery" ->
           {d \in DOMAIN docs :
               /\ docs[d].part_id # NoVal
               /\ \E i \in 1..Len(w.iterms) : <<w.iterms[i]>> = docs[d].part_id}
      [] w.kind = "RangeQuery" ->
           {d \in DOMAIN docs : /\ docs[d].end_time # NoVal
                                /\ w.lo <= docs[d].end_time[1]
                                /\ docs[d].end_time[1] <= w.hi}
      [] OTHER -> {}

\* A bitset that is allocated and never filled.
MkBitSet_unfilled(bits, maxv) == [bits |-> {}, max_value |-> maxv]

\* BitSet::with_max_value(max_doc) filled with the matching docs.
MkBitSet(bits, maxv) == [bits |-> bits, max_value |-> maxv]

\* ----------------------------------------------------- doc-set cache keys
\* CachableQueryKey(segment_id, &query) and the owned (SegmentId, CachableQuery).
CachableQueryKey(s, q) == [seg |-> s, query |-> q]

\* From<CachableQueryKey> for (SegmentId, CachableQuery)
OwnedKey(k) == [seg |-> k.seg, query |-> k.query]

equivalent_by_segment(k, owned) == k.seg = owned.seg

equivalent_unordered(k, owned) ==
    /\ k.seg = owned.seg
    /\ k.query.variant = owned.query.variant
    /\ k.query.bytes = owned.query.bytes
    /\ k.query.num = owned.query.num
    /\ {k.query.ids[i] : i \in 1..Len(k.query.ids)}
         = {owned.query.ids[i] : i \in 1..Len(owned.query.ids)}

equivalent_by_variant(k, owned) ==
    k.seg = owned.seg /\ k.query.variant = owned.query.variant

\* Equivalent::equivalent(&self, key)
equivalent(k, owned) == k.seg = owned.seg /\ k.query = owned.query

\* #[derive(Hash)] on CachableQuery: what the value writes to the hasher, the
\* discriminant first, then the payload (a slice writes its length, then its
\* elements).
discriminant(q) ==
    CASE q.variant = "Complex" -> 0
      [] q.variant = "ByPartKey" -> 1
      [] q.variant = "ByPartIds" -> 2
      [] q.variant = "ByEndTime" -> 3
      [] q.variant = "ByPartId" -> 4
      [] q.variant = "All" -> 5

hash_query(q) ==
    <<discriminant(q)>> \o
    (CASE q.variant \in {"Complex", "ByPartKey"} -> <<Len(q.bytes)>> \o q.bytes
       [] q.variant = "ByPartIds" -> <<Len(q.ids)>> \o q.ids
       [] q.variant \in {"ByEndTime", "ByPartId"} -> <<q.num>>
       [] q.variant = "All" -> <<>>)

\* #[derive(Hash)] on CachableQueryKey: the fields in order, the reference
\* hashing as the query it points to.
hash_borrowed(k) == <<k.seg>> \o hash_query(k.query)

\* Hash of the tuple (SegmentId, CachableQuery): the elements in order.
hash_owned(owned) == <<owned.seg>> \o hash_query(owned.query)

\* --------------------------------------------------- column cache keys
\* CacheKey(segment_id, field) and the owned (SegmentId, String).
CacheKey(s, f) == [seg |-> s, field |-> f]

\* From<CacheKey> for (SegmentId, String)
OwnedColumnKey(k) == [seg |-> k.seg, field |-> k.field]

column_equivalent_by_field(k, owned) == k.field = owned.field

\* Equivalent::equivalent of CacheKey
column_equivalent(k, owned) == k.seg = owned.seg /\ k.field = owned.field

\* Hash of CacheKey and of (SegmentId, String): the segment id, then the
\* string (its bytes and the terminator 0xff).
hash_column_borrowed(k) == [seg |-> k.seg, str |-> k.field, term |-> 255]

hash_column_owned(owned) == [seg |-> owned.seg, str |-> owned.field, term |-> 255]

\* ----------------------------------------------------------- column cache
\* The three lookups and the type of column each asks the segment for.
Getters == {"get_column", "get_bytes_column", "get_str_column"}

GetterType(g) ==
    CASE g = "get_column" -> "i64"
      [] g = "get_bytes_column" -> "bytes"
      [] g = "get_str_column" -> "str"

\* The type of the fast-field column of a field.
FieldType(f) ==
    CASE f \in {PART_ID, START_TIME, END_TIME} -> "i64"
      [] f = PART_KEY -> "bytes"
      [] f = COL1 -> "str"
      [] OTHER -> "none"

\* The DynamicColumn of a field of a segment.
DynamicColumn(s, f) == [seg |-> s, field |-> f, ty |-> FieldType(f)]

\* reader.fast_fields().column_opt(field) / bytes(field) / str(field): the
\* column of the asked type if the segment has one.
segment_column(g, s, f) ==
    IF f \in SegColumns(s) /\ FieldType(f) = GetterType(g)
    THEN <<DynamicColumn(s, f)>> ELSE <<>>

\* A conversion that hands the cached column over whatever its type.
into_column_any(g, col) == <<col>>

\* col.into(): the cached DynamicColumn as the asked type.
into_column(g, col) == IF col.ty = GetterType(g) THEN <<col>> ELSE <<>>

\* if let Some(col) = column { insert }
stores_always(column) == TRUE

stores(column) == column # <<>>

\* The body shared by get_column, get_bytes_column and get_str_column: what
\* the lookup returns and the keys the cache holds afterwards.
lookup(g, s, f, cols) ==
    LET key == CacheKey(s, f)
        found == {e \in cols : column_equivalent(key, e)}
        cached == CHOOSE e \in found : TRUE
        column == segment_column(g, s, f)
    IN IF found # {}
       THEN [hit |-> TRUE, asked |-> FALSE, cols |-> cols,
             col |-> into_column(g, DynamicColumn(cached.seg, cached.field))]
       ELSE [hit |-> FALSE, asked |-> TRUE, col |-> column,
             cols |-> IF stores(column) THEN cols \cup {OwnedColumnKey(key)}
                      ELSE cols]

weight_ids_as_bytes(key, val) ==
    LET bitset_size == ((val.max_value + 63) \div 64) * 8
        q == key.query
        type_size ==
            CASE q.variant \in {"Complex", "ByPartKey"} -> Len(q.bytes) + BoxOverhead
              [] q.variant = "ByPartIds" -> Len(q.ids) + BoxOverhead
              [] OTHER -> 0
    IN type_size + KeyStructSize + bitset_size

weight_bitset_in_bits(key, val) ==
    LET bitset_size == (val.max_value + 63) \div 64
        q == key.query
        type_size ==
            CASE q.variant \in {"Complex", "ByPartKey"} -> Len(q.bytes) + BoxOverhead
              [] q.variant = "ByPartIds" -> (Len(q.ids) * SizeOfI32) + BoxOverhead
              [] OTHER -> 0
    IN type_size + KeyStructSize + bitset_size

\* CachableQueryWeighter::weight
weight(key, val) ==
    LET bitset_size == ((val.max_value + 63) \div 64) * 8
        key_size == KeyStructSize
        q == key.query
        type_size ==
            CASE q.variant = "Complex" -> Len(q.bytes) + BoxOverhead
              [] q.variant = "ByPartKey" -> Len(q.bytes) + BoxOverhead
              [] q.variant = "ByPartIds" -> (Len(q.ids) * SizeOfI32) + BoxOverhead
              [] q.variant = "All" -> 0
              [] q.variant = "ByPartId" -> 0
              [] q.variant = "ByEndTime" -> 0
    IN type_size + key_size + bitset_size

\* ------------------------------------------------------------ collectors
\* PartIdCollector::new(limit, column_cache)
PartIdCollector(limit) == [kind |-> "PartId", limit |-> limit]
NoCollector == [kind |-> "None", limit |-> 0]

\* PartKeyCollector::new(column_cache): it has no limit, its fruit is at most
\* one part key (the limit field is never read for it).
PartKeyCollector == [kind |-> "PartKey", limit |-> 1]

\* PartKeyRecordCollector::new(limit, column_cache)
PartKeyRecordCollector(limit) == [kind |-> "PartKeyRecord", limit |-> limit]

\* TimeCollector::new(field, limit, column_cache)
TimeCollector(field, limit) == [kind |-> "Time", limit |-> limit, field |-> field]

\* The collectors the host passes in the model: limit 1 (partIdFromPartKey)
\* and no limit (partIdsEndedBefore).
Collectors == {PartIdCollector(1), PartIdCollector(UsizeMax)}

\* for_segment of PartKeyRecordCollector without the END_TIME column.
required_columns_no_end_time(coll) ==
    CASE coll.kind = "PartId" -> <<PART_ID>>
      [] coll.kind = "PartKey" -> <<PART_KEY>>
      [] coll.kind = "PartKeyRecord" -> <<PART_KEY, START_TIME>>
      [] coll.kind = "Time" -> <<PART_ID, coll.field>>
      [] OTHER -> <<>>

\* The fast-field columns for_segment opens, in the order it opens them.
required_columns(coll) ==
    CASE coll.kind = "PartId" -> <<PART_ID>>
      [] coll.kind = "PartKey" -> <<PART_KEY>>
      [] coll.kind = "PartKeyRecord" -> <<PART_KEY, START_TIME, END_TIME>>
      [] coll.kind = "Time" -> <<PART_ID, coll.field>>
      [] OTHER -> <<>>

\* The lookup of the column cache for_segment uses for a column.
column_getter(f) == IF f = PART_KEY THEN "get_bytes_column" ELSE "get_column"

\* for_segment on a segment that has the fast-field columns `present`: each
\* required column is opened in turn, the first absent one is the error.
for_segment(coll, present) ==
    LET req == required_columns(coll)
        missing == {i \in 1..Len(req) : req[i] \notin present}
    IN IF missing = {} THEN [ok |-> TRUE, err |-> "", field |-> ""]
       ELSE [ok |-> FALSE, err |-> "FieldNotFound",
             field |-> req[CHOOSE i \in missing : \A j \in missing : i <= j]]

\* What the columns hold for one doc: Column::first(doc) of PART_ID, of the
\* ordinals of PART_KEY, of START_TIME and of END_TIME, and the bytes
\* ord_to_bytes writes for that ordinal (NoVal when it returns an error).
Projection(pid, ord, bytes, st, et) ==
    [part_id |-> pid, ord |-> ord, bytes |-> bytes, start_time |-> st,
     end_time |-> et]

NoProjection == Projection(NoVal, NoVal, NoVal, NoVal, NoVal)

\* The projections of a doc of an index segment.
Projections(s, doc) ==
    IF doc \in DOMAIN SegDocs(s)
    THEN LET d == SegDocs(s)[doc]
         IN Projection(d.part_id,
                       IF d.part_key = NoVal THEN NoVal ELSE <<doc>>,
                       IF d.part_key = NoVal THEN NoVal ELSE <<d.part_key>>,
                       d.start_time, d.end_time)
    ELSE NoProjection

\* `val as i32`: the low 32 bits of the i64, read as a signed number.
as_i32(val) ==
    LET low == val % 65536
        high == (val \div 65536) % 65536
    IN IF high >= 32768 THEN (high - 65536) * 65536 + low
       ELSE high * 65536 + low

\* The limit test of collect with > for >=.
PartIdSegmentCollector_collect_one_more(docs, limit, p) ==
    IF Len(docs) > limit THEN docs
    ELSE IF p.part_id # NoVal THEN Append(docs, as_i32(p.part_id[1]))
    ELSE docs

\* PartIdSegmentCollector::collect: docs is self.docs before and after.
PartIdSegmentCollector_collect(docs, limit, p) ==
    IF Len(docs) >= limit THEN docs
    ELSE IF p.part_id # NoVal THEN Append(docs, as_i32(p.part_id[1]))
    ELSE docs

\* collect without the test of self.doc.is_some(): the last doc wins.
PartKeySegmentCollector_collect_last(doc, p) ==
    IF p.ord = NoVal THEN doc
    ELSE IF p.bytes = NoVal THEN doc
    ELSE <<p.bytes[1]>>

\* PartKeySegmentCollector::collect: doc is self.doc, an Option<Vec<u8>>.
PartKeySegmentCollector_collect(doc, p) ==
    IF doc # NoVal THEN doc
    ELSE IF p.ord = NoVal THEN doc
    ELSE IF p.bytes = NoVal THEN doc
    ELSE <<p.bytes[1]>>

\* PartKeyRecord { part_key, start_time, end_time }
PartKeyRecord(part_key, start_time, end_time) ==
    [part_key |-> part_key, start_time |-> start_time, end_time |-> end_time]

\* collect with a default end time for a doc that has none.
PartKeyRecordSegmentCollector_collect_default(docs, limit, p) ==
    IF Len(docs) >= limit THEN docs
    ELSE IF p.ord = NoVal THEN docs
    ELSE IF p.bytes = NoVal THEN docs
    ELSE IF p.start_time = NoVal THEN docs
    ELSE IF p.end_time = NoVal
         THEN Append(docs, PartKeyRecord(p.bytes[1], p.start_time[1], 0))
    ELSE Append(docs, PartKeyRecord(p.bytes[1], p.start_time[1], p.end_time[1]))

\* PartKeyRecordSegmentCollector::collect
PartKeyRecordSegmentCollector_collect(docs, limit, p) ==
    IF Len(docs) >= limit THEN docs
    ELSE IF p.ord = NoVal THEN docs
    ELSE IF p.bytes = NoVal THEN docs
    ELSE IF p.start_time = NoVal THEN docs
    ELSE IF p.end_time = NoVal THEN docs
    ELSE Append(docs, PartKeyRecord(p.bytes[1], p.start_time[1], p.end_time[1]))

\* TimeSegmentCollector::collect: a (part id, time) pair for a doc within the
\* limit that has both values.
TimeSegmentCollector_collect(docs, coll, p) ==
    LET time == IF coll.field = START_TIME THEN p.start_time ELSE p.end_time IN
    IF Len(docs) >= coll.limit THEN docs
    ELSE IF p.part_id = NoVal THEN docs
    ELSE IF time = NoVal THEN docs
    ELSE Append(docs, <<as_i32(p.part_id[1]), time[1]>>)

\* SegmentCollector::collect(doc, score) of the segment collector of coll:
\* self is its docs (a Vec) or its doc (an Option), empty when it is created.
collect(coll, self, p) ==
    CASE coll.kind = "PartId" -> PartIdSegmentCollector_collect(self, coll.limit, p)
      [] coll.kind = "PartKey" -> PartKeySegmentCollector_collect(self, p)
      [] coll.kind = "PartKeyRecord" ->
           PartKeyRecordSegmentCollector_collect(self, coll.limit, p)
      [] coll.kind = "Time" -> TimeSegmentCollector_collect(self, coll, p)
      [] OTHER -> self

\* SegmentCollector::harvest: self.docs, resp. self.doc.
harvest(coll, self) == self

\* The docs of a set in increasing order, as BitSetWeight replays them.
RECURSIVE Ascending(_)
Ascending(ds) ==
    IF ds = {} THEN <<>>
    ELSE LET m == CHOOSE x \in ds : \A y \in ds : x <= y
         IN <<m>> \o Ascending(ds \ {m})

\* weight.for_each_no_score(reader, ...): collect is called for every doc.
RECURSIVE CollectEach(_, _, _, _)
CollectEach(coll, order, s, self) ==
    IF order = <<>> THEN self
    ELSE CollectEach(coll, Tail(order), s,
                     collect(coll, self, Projections(s, Head(order))))

\* The fruit of one segment: the segment collector fed with the bitset.
segment_fruit(coll, s, bits) ==
    harvest(coll, CollectEach(coll, Ascending(bits), s, <<>>))

Min(a, b) == IF a <= b THEN a ELSE b

Take(seq, n) == SubSeq(seq, 1, Min(n, Len(seq)))

\* a - b on usize: the subtraction wraps around when b exceeds a.
usize_sub(a, b) == IF a >= b THEN a - b ELSE (UsizeMax - (b - a)) + 1

\* The body of the merge loop without the take: every segment fruit whole.
merge_extend_all(limit, result, part_ids) == result \o part_ids

\* result.extend(part_ids.iter().take(self.limit - result.len()))
merge_extend(limit, result, part_ids) ==
    result \o Take(part_ids, usize_sub(limit, Len(result)))

\* PartIdCollector::merge_fruits and PartKeyRecordCollector::merge_fruits:
\* the loop over the segment fruits.
RECURSIVE MergeLoop(_, _, _)
MergeLoop(segment_fruits, limit, result) ==
    IF segment_fruits = <<>> THEN result
    ELSE MergeLoop(Tail(segment_fruits), limit,
                   merge_extend(limit, result, Head(segment_fruits)))

\* PartKeyCollector::merge_fruits: segment_fruits.into_iter().flatten().next()
RECURSIVE flatten_next(_)
flatten_next(segment_fruits) ==
    IF segment_fruits = <<>> THEN NoVal
    ELSE IF Head(segment_fruits) # NoVal THEN Head(segment_fruits)
    ELSE flatten_next(Tail(segment_fruits))

\* merge_fruits with .last() for .next() in PartKeyCollector.
merge_fruits_last(coll, segment_fruits) ==
    LET some == {i \in 1..Len(segment_fruits) : segment_fruits[i] # NoVal} IN
    IF coll.kind = "PartKey"
    THEN IF some = {} THEN NoVal
         ELSE segment_fruits[CHOOSE i \in some : \A j \in some : j <= i]
    ELSE MergeLoop(segment_fruits, coll.limit, <<>>)

\* Collector::merge_fruits of the collector.
merge_fruits(coll, segment_fruits) ==
    IF coll.kind = "PartKey" THEN flatten_next(segment_fruits)
    ELSE MergeLoop(segment_fruits, coll.limit, <<>>)

\* ---------------------------------------------------- range-aware regex
\* JSON_PREFIX_SEPARATOR: the separator byte 0x00 and the literal 's'.
JSON_PREFIX_SEPARATOR == <<0, 115>>

\* The inner automaton A: tantivy_fst::Regex of a pattern.  A state is
\* Option<usize>: <<n>> in the DFA, <<>> once no match is possible.
Patterns == {"a", "ab*", ".*", "("}

\* Regex::new fails on a pattern that does not parse.
regex_new(pattern) == pattern # "("

inner_start(p) == <<0>>

inner_accept(p, st, byte) ==
    IF st = <<>> THEN <<>>
    ELSE CASE p = "a" -> IF st = <<0>> /\ byte = 97 THEN <<1>> ELSE <<>>
           [] p = "ab*" -> IF st = <<0>> /\ byte = 97 THEN <<1>>
                           ELSE IF st = <<1>> /\ byte = 98 THEN <<1>>
                           ELSE <<>>
           [] p = ".*" -> <<0>>
           [] OTHER -> <<>>

inner_is_match(p, st) ==
    CASE p = "a" -> st = <<1>>
      [] p = "ab*" -> st = <<1>>
      [] p = ".*" -> st = <<0>>
      [] OTHER -> FALSE

inner_can_match(p, st) == st # <<>>

inner_will_always_match(p, st) == p = ".*" /\ st = <<0>>

\* SkipPrefixAutomaton { inner, prefix_size }
SkipPrefixAutomaton(inner, prefix_size) ==
    [inner |-> inner, prefix_size |-> prefix_size]

\* SkipPrefixAutomatonState { count, inner }
SkipPrefixAutomatonState(count, inner) == [count |-> count, inner |-> inner]

NoRegexQuery ==
    [status |-> "none", regex |-> SkipPrefixAutomaton("", 0), prefix |-> <<>>]

from_pattern_no_separator(regex_pattern, prefix) ==
    IF ~regex_new(regex_pattern)
    THEN [NoRegexQuery EXCEPT !.status = "InvalidArgument"]
    ELSE [status |-> "ok",
          regex |-> SkipPrefixAutomaton(regex_pattern, Len(prefix)),
          prefix |-> IF prefix = <<>> THEN <<>> ELSE prefix \o <<0, 115>>]

\* RangeAwareRegexQuery::from_pattern
from_pattern(regex_pattern, prefix) ==
    IF ~regex_new(regex_pattern)
    THEN [NoRegexQuery EXCEPT !.status = "InvalidArgument"]
    ELSE [status |-> "ok",
          regex |-> SkipPrefixAutomaton(regex_pattern,
                        IF prefix = <<>> THEN 0
                        ELSE Len(prefix) + Len(JSON_PREFIX_SEPARATOR)),
          prefix |-> IF prefix = <<>> THEN <<>> ELSE prefix \o <<0, 115>>]

\* Automaton for SkipPrefixAutomaton
start(A) == SkipPrefixAutomatonState(0, inner_start(A.inner))

is_match(A, state) ==
    IF state.count < A.prefix_size THEN FALSE
    ELSE inner_is_match(A.inner, state.inner)

accept_skip_one_more(A, state, byte) ==
    IF state.count <= A.prefix_size
    THEN [state EXCEPT !.count = @ + 1]
    ELSE [state EXCEPT !.inner = inner_accept(A.inner, state.inner, byte)]

\* accept that goes on counting once the prefix has been skipped.
accept_counts_on(A, state, byte) ==
    IF state.count < A.prefix_size
    THEN [state EXCEPT !.count = @ + 1]
    ELSE [state EXCEPT !.count = @ + 1,
                       !.inner = inner_accept(A.inner, state.inner, byte)]

\* accept that feeds the bytes of the prefix to the inner automaton too.
accept_feed_inner(A, state, byte) ==
    IF state.count < A.prefix_size
    THEN [state EXCEPT !.count = @ + 1,
                       !.inner = inner_accept(A.inner, state.inner, byte)]
    ELSE [state EXCEPT !.inner = inner_accept(A.inner, state.inner, byte)]

\* let mut state = state.clone(); if state.count < self.prefix_size
\* { state.count += 1 } else { state.inner = self.inner.accept(..) }; state
accept(A, state, byte) ==
    IF state.count < A.prefix_size
    THEN [state EXCEPT !.count = @ + 1]
    ELSE [state EXCEPT !.inner = inner_accept(A.inner, state.inner, byte)]

can_match(A, state) ==
    IF state.count < A.prefix_size THEN TRUE
    ELSE inner_can_match(A.inner, state.inner)

\* will_always_match that asks the inner automaton in the skip phase too.
will_always_match_delegates(A, state) ==
    inner_will_always_match(A.inner, state.inner)

will_always_match(A, state) ==
    IF state.count < A.prefix_size THEN FALSE
    ELSE inner_will_always_match(A.inner, state.inner)

\* ----------------------------------------------------------------- state
VARIABLES
    committed,        \* segments of the last commit, in order (the index)
    reader,           \* segments of the IndexReader's current searcher
    writer_dirty,     \* the IndexWriter holds documents not yet committed
    writer_lock,      \* thread holding IndexHandle.writer for writing, 0 if none
    changes_pending,  \* IndexHandle.changes_pending
    cache,            \* IndexHandle.cache: entries [key, ref, w]
    arcs,             \* the heap of Arc<BitSet>: address -> [rc, val]
    hits, misses,     \* counters of the doc-set cache
    columns,          \* ColumnCache: the (segment, field) keys it holds
    col_hits, col_misses,
    th,               \* per thread: the call in progress and its locals
    calls,            \* number of calls started
    fn_in, fn_out,    \* argument and result of a directly applied function
    regex_query,      \* the RangeAwareRegexQuery built by from_pattern
    astate,           \* the state of its automaton on the term being read
    consumed,         \* the bytes of the term accepted so far
    search            \* a collector run over segments handed to it directly

vars == <<committed, reader, writer_dirty, writer_lock, changes_pending,
          cache, arcs, hits, misses, columns, col_hits, col_misses, th, calls,
          fn_in, fn_out, regex_query, astate, consumed, search>>

index_vars == <<committed, reader, writer_dirty, writer_lock, changes_pending>>
cache_vars == <<cache, arcs, hits, misses>>
column_vars == <<columns, col_hits, col_misses>>
fn_vars == <<fn_in, fn_out>>
regex_vars == <<regex_query, astate, consumed>>

\* ---------------------------------------------------------- Arc<BitSet>
NoBitSet == MkBitSet({}, 0)
AllBitSets == {MkBitSet(b, m) : b \in SUBSET DocIds, m \in {max_doc(1), max_doc(2), max_doc(3)}}

\* Arc::new: the lowest free address.
FreshAddr(heap) == CHOOSE a \in 1..(Cardinality(DOMAIN heap) + 1) : a \notin DOMAIN heap

ArcNew(heap, a, val) == (a :> [rc |-> 1, val |-> val]) @@ heap

\* Arc::clone
ArcClone(heap, a) ==
    IF a \in DOMAIN heap THEN [heap EXCEPT ![a].rc = @ + 1] ELSE heap

\* Drop of one reference to each address of as; the last drop frees the value.
ArcDropAll(heap, as) ==
    [a \in {x \in DOMAIN heap : ~(x \in as /\ heap[x].rc = 1)} |->
        IF a \in as THEN [heap[a] EXCEPT !.rc = @ - 1] ELSE heap[a]]

ArcDrop(heap, a) == ArcDropAll(heap, {a})

\* What a read through a reference yields; a read of freed memory may yield
\* anything.
ReadArc(heap, a) ==
    IF a \in DOMAIN heap THEN {heap[a].val} ELSE AllBitSets

\* -------------------------------------------------------- doc-set cache
\* second argument of Cache::with_weighter in new_handle
weight_capacity_doubled == QUERY_CACHE_MAX_SIZE_BYTES * 2

weight_capacity == QUERY_CACHE_MAX_SIZE_BYTES

RECURSIVE TotalWeight(_)
TotalWeight(entries) ==
    IF entries = {} THEN 0
    ELSE LET e == CHOOSE x \in entries : TRUE
         IN e.w + TotalWeight(entries \ {e})

\* Cache::get hands out a clone of the stored Arc.
get_clone_borrowed(heap, a) == heap

get_clone(heap, a) == ArcClone(heap, a)

\* The entries Cache::insert may leave behind: the entry of the same key is
\* replaced, then any set of entries (the new one included) may be evicted,
\* and enough of them must be to respect the weight capacity.
InsertOutcomes(entries, e) ==
    LET replaced == (entries \ {x \in entries : x.key = e.key}) \cup {e}
    IN {kept \in SUBSET replaced : TotalWeight(kept) <= weight_capacity}

\* ------------------------------------------------------- thread locals
NoQuery == [variant |-> "None", bytes |-> <<>>, ids |-> <<>>, num |-> 0]
NoResult == [status |-> "none", fruit |-> <<>>, err |-> ""]

Idle ==
    [pc |-> "idle",
     query |-> NoQuery, coll |-> NoCollector,
     searcher |-> <<>>,        \* self.reader.searcher()
     seg_ord |-> 0,            \* position of the for loop
     query_weight |-> None,    \* Option<Box<dyn Weight>>
     docs |-> 0,               \* the Arc<BitSet> bound in the loop body
     fruits |-> <<>>,
     result |-> NoResult,
     \* history of the call, for the properties below
     held |-> NoBitSet,        \* content of docs when it was obtained
     compiles |-> 0,           \* invocations of to_query
     probes |-> <<>>,          \* [seg, hit, key] of every cache probe
     collected |-> <<>>,       \* [seg, ord, bits] of every collect_segment
     merges |-> 0,             \* invocations of merge_fruits
     failed |-> FALSE,         \* some step returned an error
     overflow |-> FALSE,       \* an insert met a full cache
     opened |-> 0,             \* columns for_segment has opened in the segment
     field |-> "",             \* the field a FieldNotFound error names
     entry |-> "",             \* the entry point the host called
     limit |-> 0,              \* its limit argument, when it has one
     ret |-> NoVal,            \* <<v>>: the value the entry point returns
     swapped |-> NoVal,        \* <<b>>: what the swap of changes_pending gave
     locked |-> FALSE,         \* the call acquired the writer lock
     commits |-> 0,            \* invocations of writer.commit that succeeded
     ingested |-> 0]           \* document batches ingested before the call

\* Arguments and results of the functions applied directly.
NoKey == [seg |-> 0, query |-> NoQuery]
NoColumnKey == [seg |-> 0, field |-> ""]

NoInput ==
    [op |-> "none", query |-> NoQuery, seg |-> 0, max_value |-> 0,
     query2 |-> NoQuery, seg2 |-> 0, field |-> "", field2 |-> "", schema |-> {},
     pattern |-> "", prefix |-> <<>>]
NoOutput ==
    [bool |-> FALSE, num |-> 0, res |-> Ok(None), owned |-> NoKey,
     owned_col |-> NoColumnKey, col |-> <<>>, asked |-> FALSE]

\* No collector run: nothing was handed to a collector directly.
NoSearch ==
    [pc |-> "none", coll |-> NoCollector, self |-> <<>>, fed |-> <<>>,
     present |-> {}, fruits |-> <<>>, result |-> NoResult, field |-> ""]

\* No automaton state: the automaton has not been started.
NoState == SkipPrefixAutomatonState(0, <<>>)

\* The handle is created over an index that is one of indexes.
InitOver(indexes) ==
    /\ committed \in indexes
    /\ reader = committed
    /\ writer_dirty = FALSE
    /\ writer_lock = 0
    /\ changes_pending = FALSE
    /\ cache = {}
    /\ arcs = <<>>
    /\ hits = 0
    /\ misses = 0
    /\ columns = {}
    /\ col_hits = 0
    /\ col_misses = 0
    /\ th = [t \in Threads |-> Idle]
    /\ calls = 0
    /\ fn_in = NoInput
    /\ fn_out = NoOutput
    /\ regex_query = NoRegexQuery
    /\ astate = NoState
    /\ consumed = <<>>
    /\ search = NoSearch

\* The handle is created over an index of zero, one or two segments.
Init == InitOver({<<>>, <<1>>, <<1, 2>>})

\* ------------------------------------------------ execute_cachable_query
\* The segment readers the loop iterates: those of the searcher taken at the
\* start of the call.
segment_readers_live(c, rd) == rd

segment_readers(c, rd) == c.searcher

\* Where the loop goes after the body for one segment.
LoopPc(c, rd, ord) ==
    IF ord < Len(segment_readers(c, rd)) THEN "probe" ELSE "merge"

\* After the probe: a hit binds the cached docs; a miss builds the weight
\* only if no earlier segment of this call has.
after_probe_recompile(hit, qw) ==
    IF hit THEN "collect" ELSE "compile"

after_probe_eager(hit, qw) ==
    IF qw = None THEN "compile" ELSE IF hit THEN "collect" ELSE "eval"

after_probe(hit, qw) ==
    IF hit THEN "collect"
    ELSE IF qw = None THEN "compile" ELSE "eval"

\* The `?` operator: the error leaves the function at once.
Propagate_skip(c, rd, e) ==
    [c EXCEPT !.pc = LoopPc(c, rd, c.seg_ord + 1), !.seg_ord = c.seg_ord + 1,
              !.docs = 0, !.failed = TRUE]

Propagate(c, rd, e) ==
    [c EXCEPT !.pc = "done", !.docs = 0, !.failed = TRUE,
              !.result = [status |-> "err", fruit |-> <<>>, err |-> e]]

\* The guard of the insertion.
insert_guard_always(q) == TRUE

insert_guard(q) == should_cache(q)

\* fruits.push(results)
push_fruit_front(fruits, f) == <<f>> \o fruits

push_fruit(fruits, f) == Append(fruits, f)

\* The host threads are interchangeable: a call goes to the lowest idle one.
LowestIdle(t) == th[t].pc = "idle" /\ \A u \in Threads : u < t => th[u].pc # "idle"

\* Entry of a query call: the searcher snapshot and the empty locals.
Begin(t) ==
    /\ LowestIdle(t)
    /\ calls < MaxCalls
    /\ \E q \in Queries, coll \in Collectors :
         LET c0 == [Idle EXCEPT !.query = q, !.coll = coll, !.searcher = reader,
                                !.entry = "execute_cachable_query"]
         IN th' = [th EXCEPT ![t] = [c0 EXCEPT !.pc = LoopPc(c0, reader, 0)]]
    /\ calls' = calls + 1
    /\ UNCHANGED <<index_vars, cache_vars, column_vars, fn_vars, regex_vars, search>>

\* A lookup that counts only its hits.
count_get_hits_only(hit, h, m) == IF hit THEN <<h + 1, m>> ELSE <<h, m>>

\* Cache::get counts the lookup: a hit or a miss.
count_get(hit, h, m) == IF hit THEN <<h + 1, m>> ELSE <<h, m + 1>>

\* self.cache.get(&cache_key)
Probe(t) ==
    LET c == th[t]
        s == segment_readers(c, reader)[c.seg_ord + 1]
        cache_key == CachableQueryKey(s, c.query)
        found == {e \in cache : equivalent(cache_key, e.key)}
    IN
    /\ c.pc = "probe"
    /\ IF found # {}
       THEN \E e \in found : \E v \in ReadArc(arcs, e.ref) :
              /\ arcs' = get_clone(arcs, e.ref)
              /\ hits' = count_get(TRUE, hits, misses)[1]
              /\ misses' = count_get(TRUE, hits, misses)[2]
              /\ th' = [th EXCEPT ![t] =
                         [c EXCEPT !.pc = after_probe(TRUE, c.query_weight),
                                   !.docs = e.ref, !.held = v,
                                   !.probes = Append(@, [seg |-> s, hit |-> TRUE,
                                                         key |-> e.key])]]
       ELSE /\ arcs' = arcs
            /\ hits' = count_get(FALSE, hits, misses)[1]
            /\ misses' = count_get(FALSE, hits, misses)[2]
            /\ th' = [th EXCEPT ![t] =
                       [c EXCEPT !.pc = after_probe(FALSE, c.query_weight),
                                 !.probes = Append(@, [seg |-> s, hit |-> FALSE,
                                                       key |-> NoKey])]]
    /\ UNCHANGED <<index_vars, cache, column_vars, calls, fn_vars, regex_vars, search>>

\* cachable_query.to_query(&self.schema, self.default_field)?  and
\* query.weight(scoring)?
Compile(t) ==
    LET c == th[t]
        query == to_query(c.query, HandleSchema)
        w == IF query.ok THEN query_weight_of(query.val, HandleSchema) ELSE query
        c1 == [c EXCEPT !.compiles = @ + 1]
    IN
    /\ c.pc = "compile"
    /\ th' = [th EXCEPT ![t] =
               IF w.ok
               THEN [c1 EXCEPT !.pc = "eval", !.query_weight = w.val]
               ELSE Propagate(c1, reader, w.err)]
    /\ UNCHANGED <<index_vars, cache_vars, column_vars, calls, fn_vars, regex_vars, search>>

\* weight.for_each_no_score(segment_reader, ...)?, Arc::new(bitset) and, for a
\* cachable query, self.cache.insert(cache_key.into(), bitset.clone()).
Eval(t) ==
    LET c == th[t]
        s == segment_readers(c, reader)[c.seg_ord + 1]
        cache_key == CachableQueryKey(s, c.query)
        bitset == MkBitSet(Matches(c.query_weight, s), max_doc(s))
        a == FreshAddr(arcs)
        heap1 == ArcNew(arcs, a, bitset)
        e == [key |-> OwnedKey(cache_key), ref |-> a,
              w |-> weight(OwnedKey(cache_key), bitset)]
        full == TotalWeight((cache \ {x \in cache : x.key = e.key}) \cup {e})
                    > QUERY_CACHE_MAX_SIZE_BYTES
    IN
    /\ c.pc = "eval"
    /\ \/ \* the iteration over the postings fails
          /\ th' = [th EXCEPT ![t] = Propagate(c, reader, "IoError")]
          /\ UNCHANGED <<cache, arcs>>
       \/ /\ insert_guard(c.query)
          /\ \E kept \in InsertOutcomes(cache, e) :
               /\ cache' = kept
               /\ arcs' = ArcDropAll(ArcClone(heap1, a),
                                     {x.ref : x \in (cache \cup {e}) \ kept})
          /\ th' = [th EXCEPT ![t] =
                     [c EXCEPT !.pc = "collect", !.docs = a, !.held = bitset,
                               !.overflow = full]]
       \/ /\ ~insert_guard(c.query)
          /\ cache' = cache
          /\ arcs' = heap1
          /\ th' = [th EXCEPT ![t] =
                     [c EXCEPT !.pc = "collect", !.docs = a, !.held = bitset]]
    /\ UNCHANGED <<index_vars, hits, misses, column_vars, calls, fn_vars, regex_vars, search>>

\* The rest of collector.collect_segment(&weight, segment_ord, segment_reader)
\* once the segment collector exists, and fruits.push(results).
Collected(c, rd, s, v) ==
    [c EXCEPT !.pc = LoopPc(c, rd, c.seg_ord + 1),
              !.seg_ord = c.seg_ord + 1,
              !.docs = 0,
              !.opened = 0,
              !.fruits = push_fruit(@, segment_fruit(c.coll, s, v.bits)),
              !.collected = Append(@, [seg |-> s, ord |-> c.seg_ord,
                                       bits |-> v.bits])]

\* collect_segment: for_segment asks the column cache for the next column
\* the collector requires; the docs are collected once all are open.
Collect(t) ==
    LET c == th[t]
        s == segment_readers(c, reader)[c.seg_ord + 1]
        req == required_columns(c.coll)
        f == req[c.opened + 1]
        key == [seg |-> s, field |-> f]
    IN
    /\ c.pc = "collect"
    /\ IF key \in columns
       THEN /\ col_hits' = col_hits + 1
            /\ col_misses' = col_misses
            /\ IF c.opened + 1 = Len(req)
               THEN /\ \E v \in ReadArc(arcs, c.docs) :
                         th' = [th EXCEPT ![t] = Collected(c, reader, s, v)]
                    /\ arcs' = ArcDrop(arcs, c.docs)
               ELSE /\ th' = [th EXCEPT ![t] = [c EXCEPT !.opened = @ + 1]]
                    /\ arcs' = arcs
       ELSE /\ col_hits' = col_hits
            /\ col_misses' = col_misses + 1
            /\ IF f \in SegColumns(s)
               THEN /\ th' = [th EXCEPT ![t] = [c EXCEPT !.pc = "col_insert"]]
                    /\ arcs' = arcs
               ELSE /\ th' = [th EXCEPT ![t] =
                               [Propagate(c, reader, "FieldNotFound")
                                   EXCEPT !.field = f]]
                    /\ arcs' = ArcDrop(arcs, c.docs)
    /\ UNCHANGED <<index_vars, cache, hits, misses, columns, calls, fn_vars,
                   regex_vars, search>>

\* get_column / get_bytes_column on a miss: the column read from the segment
\* goes into the column cache; then the next column is opened or, after the
\* last one, the docs are collected.
ColInsert(t) ==
    LET c == th[t]
        s == segment_readers(c, reader)[c.seg_ord + 1]
        req == required_columns(c.coll)
        f == req[c.opened + 1]
    IN
    /\ c.pc = "col_insert"
    /\ columns' = columns \cup {[seg |-> s, field |-> f]}
    /\ IF c.opened + 1 = Len(req)
       THEN /\ \E v \in ReadArc(arcs, c.docs) :
                 th' = [th EXCEPT ![t] = Collected(c, reader, s, v)]
            /\ arcs' = ArcDrop(arcs, c.docs)
       ELSE /\ th' = [th EXCEPT ![t] = [c EXCEPT !.pc = "collect",
                                                  !.opened = @ + 1]]
            /\ arcs' = arcs
    /\ UNCHANGED <<index_vars, cache, hits, misses, col_hits, col_misses,
                   calls, fn_vars, regex_vars, search>>

\* unwrap_or(0) for unwrap_or(-1).
entry_return_zero(entry, fruit) ==
    CASE entry = "partIdFromPartKey" ->
           <<IF fruit = <<>> THEN 0 ELSE fruit[1]>>
      [] entry = "endTimeFromPartId" ->
           <<IF fruit = <<>> THEN 0 ELSE fruit[1][2]>>
      [] OTHER -> <<fruit>>

\* What the entry point makes of the merged fruit: partIdFromPartKey and
\* endTimeFromPartId return results.into_iter().next() (of a pair, the
\* time) or -1; the others hand the fruit over as an array.
entry_return(entry, fruit) ==
    CASE entry = "partIdFromPartKey" ->
           <<IF fruit = <<>> THEN -1 ELSE fruit[1]>>
      [] entry = "endTimeFromPartId" ->
           <<IF fruit = <<>> THEN -1 ELSE fruit[1][2]>>
      [] OTHER -> <<fruit>>

\* Ok(collector.merge_fruits(fruits)?)
Merge(t) ==
    LET c == th[t] IN
    /\ c.pc = "merge"
    /\ th' = [th EXCEPT ![t] =
               [c EXCEPT !.pc = "done", !.merges = @ + 1,
                         !.result = [status |-> "ok",
                                     fruit |-> merge_fruits(c.coll, c.fruits),
                                     err |-> ""],
                         !.ret = entry_return(c.entry,
                                              merge_fruits(c.coll, c.fruits))]]
    /\ UNCHANGED <<index_vars, cache_vars, column_vars, calls, fn_vars, regex_vars, search>>

\* The call returns to the host.
Return(t) ==
    /\ th[t].pc = "done"
    /\ th' = [th EXCEPT ![t] = Idle]
    /\ UNCHANGED <<index_vars, cache_vars, column_vars, calls, fn_vars, regex_vars, search>>

\* --------------------------------------------------------- refreshReaders
\* The batches of documents handed to the writer so far: a commit turns the
\* uncommitted batch into one segment.
ingested_batches == Len(committed) + (IF writer_dirty THEN 1 ELSE 0)

\* The commit made whatever the swap returned.
after_swap_always_commit(pending) == "r_lock"

\* if changes_pending { writer.write()?; commit()? } reader.reload()?
after_swap(pending) == IF pending THEN "r_lock" ELSE "r_reload"

\* A swap that reads the flag and does not store the new value.
swap_without_store(cur, val) == [stored |-> cur, returned |-> cur]

\* AtomicBool::swap(val, Ordering::SeqCst): stores val and returns the
\* previous value, in one step.
swap(cur, val) == [stored |-> val, returned |-> cur]

\* handle.changes_pending.swap(false, Ordering::SeqCst)
RefreshSwap(t) ==
    /\ LowestIdle(t)
    /\ calls < MaxCalls
    /\ changes_pending' = swap(changes_pending, FALSE).stored
    /\ th' = [th EXCEPT ![t] =
               [Idle EXCEPT !.pc = after_swap(swap(changes_pending, FALSE).returned),
                            !.entry = "refreshReaders",
                            !.swapped = <<swap(changes_pending, FALSE).returned>>,
                            !.ingested = ingested_batches]]
    /\ calls' = calls + 1
    /\ UNCHANGED <<committed, reader, writer_dirty, writer_lock, cache_vars,
                   column_vars, fn_vars, regex_vars, search>>

\* handle.writer.write()?: the guard, or the error of a poisoned lock.
RefreshLock(t) ==
    /\ th[t].pc = "r_lock"
    /\ writer_lock = 0
    /\ \/ /\ writer_lock' = t
          /\ th' = [th EXCEPT ![t].pc = "r_commit", ![t].locked = TRUE]
       \/ /\ writer_lock' = writer_lock
          /\ th' = [th EXCEPT ![t] = Propagate(th[t], reader, "PoisonError")]
    /\ UNCHANGED <<committed, reader, writer_dirty, changes_pending, cache_vars,
                   column_vars, calls, fn_vars, regex_vars, search>>

\* writer.commit()?; the write guard is released at the end of the block.
RefreshCommit(t) ==
    /\ th[t].pc = "r_commit"
    /\ writer_lock' = 0
    /\ \/ /\ committed' = IF writer_dirty
                          THEN Append(committed, Len(committed) + 1)
                          ELSE committed
          /\ writer_dirty' = FALSE
          /\ th' = [th EXCEPT ![t].pc = "r_reload", ![t].commits = @ + 1]
       \/ /\ UNCHANGED <<committed, writer_dirty>>
          /\ th' = [th EXCEPT ![t] = Propagate(th[t], reader, "IoError")]
    /\ UNCHANGED <<reader, changes_pending, cache_vars, column_vars, calls, fn_vars, regex_vars, search>>

\* handle.reader.reload()?
RefreshReload(t) ==
    /\ th[t].pc = "r_reload"
    /\ \/ /\ reader' = committed
          /\ th' = [th EXCEPT ![t] =
                     [th[t] EXCEPT !.pc = "done",
                                   !.result = [status |-> "ok", fruit |-> <<>>,
                                               err |-> ""]]]
       \/ /\ reader' = reader
          /\ th' = [th EXCEPT ![t] = Propagate(th[t], reader, "IoError")]
    /\ UNCHANGED <<committed, writer_dirty, writer_lock, changes_pending,
                   cache_vars, column_vars, calls, fn_vars, regex_vars, search>>

\* The ingestion path: documents are added to the writer and the flag is set.
Ingest ==
    /\ writer_lock = 0
    /\ Len(committed) < MaxSegs
    /\ writer_dirty' = TRUE
    /\ changes_pending' = TRUE
    /\ UNCHANGED <<committed, reader, writer_lock, cache_vars, column_vars, th,
                   calls, fn_vars, regex_vars, search>>

Next ==
    \/ \E t \in Threads : Begin(t)
    \/ \E t \in Threads : Probe(t)
    \/ \E t \in Threads : Compile(t)
    \/ \E t \in Threads : Eval(t)
    \/ \E t \in Threads : Collect(t)
    \/ \E t \in Threads : ColInsert(t)
    \/ \E t \in Threads : Merge(t)
    \/ \E t \in Threads : Return(t)
    \/ \E t \in Threads : RefreshSwap(t)
    \/ \E t \in Threads : RefreshLock(t)
    \/ \E t \in Threads : RefreshCommit(t)
    \/ \E t \in Threads : RefreshReload(t)
    \/ Ingest

Spec == Init /\ [][Next]_vars

TypeOK ==
    /\ calls \in 0..MaxCalls
    /\ \A e \in cache : e.ref \in DOMAIN arcs

\* ------------------------------------- the query functions applied directly
\* The functions are pure: a behaviour applies one of them to one argument.
\* Payloads of the directly applied functions, the empty ones included.
BytePayloads == {<<>>, <<0>>, <<1, 0>>}
IdPayloads == {<<>>, <<1, 2>>, <<2, 1>>}
NumPayloads == {-1, 0, 10}

AnyQuery ==
    {Complex(b) : b \in BytePayloads} \cup {ByPartKey(b) : b \in BytePayloads}
    \cup {ByPartIds(v) : v \in IdPayloads}
    \cup {ByEndTime(n) : n \in NumPayloads} \cup {ByPartId(n) : n \in NumPayloads}
    \cup {All}

\* max_value of the bitsets handed to the weighter.
MaxValues == {0, 1, 63, 64, 65}

CallShouldCache ==
    /\ fn_in = NoInput
    /\ \E q \in AnyQuery :
         /\ fn_in' = [NoInput EXCEPT !.op = "should_cache", !.query = q]
         /\ fn_out' = [NoOutput EXCEPT !.bool = should_cache(q)]
    /\ UNCHANGED <<index_vars, cache_vars, column_vars, th, calls, regex_vars, search>>

CallWeight ==
    /\ fn_in = NoInput
    /\ \E q \in AnyQuery, s \in 1..2, m \in MaxValues :
         /\ fn_in' = [NoInput EXCEPT !.op = "weight", !.query = q, !.seg = s,
                                     !.max_value = m]
         /\ fn_out' = [NoOutput EXCEPT
                         !.num = weight(OwnedKey(CachableQueryKey(s, q)),
                                        MkBitSet({}, m))]
    /\ UNCHANGED <<index_vars, cache_vars, column_vars, th, calls, regex_vars, search>>

\* The field names handed to the column cache; no segment has a column "foo".
Fields == {PART_ID, PART_KEY, COL1, "foo"}

\* A probe key is built, converted into the owned key, and compared with the
\* owned key of a stored entry.
CallKey ==
    /\ fn_in = NoInput
    /\ \E q \in AnyQuery, s \in 1..2, q2 \in AnyQuery, s2 \in 1..2 :
         /\ fn_in' = [NoInput EXCEPT !.op = "key", !.query = q, !.seg = s,
                                     !.query2 = q2, !.seg2 = s2]
         /\ fn_out' = [NoOutput EXCEPT
                         !.owned = OwnedKey(CachableQueryKey(s, q)),
                         !.bool = equivalent(CachableQueryKey(s, q),
                                             OwnedKey(CachableQueryKey(s2, q2)))]
    /\ UNCHANGED <<index_vars, cache_vars, column_vars, th, calls, regex_vars, search>>

CallColumnKey ==
    /\ fn_in = NoInput
    /\ \E f \in Fields, s \in 1..2, f2 \in Fields, s2 \in 1..2 :
         /\ fn_in' = [NoInput EXCEPT !.op = "column_key", !.field = f, !.seg = s,
                                     !.field2 = f2, !.seg2 = s2]
         /\ fn_out' = [NoOutput EXCEPT
                         !.owned_col = OwnedColumnKey(CacheKey(s, f)),
                         !.bool = column_equivalent(CacheKey(s, f),
                                                    OwnedColumnKey(CacheKey(s2, f2)))]
    /\ UNCHANGED <<index_vars, cache_vars, column_vars, th, calls, regex_vars, search>>

\* The schemas to_query is applied with: the schema of the handle and the
\* schemas that lack one of its fields.
Schemas == {HandleSchema} \cup {HandleSchema \ {f} : f \in HandleSchema}

CallToQuery ==
    /\ fn_in = NoInput
    /\ \E q \in AnyQuery \cup {Complex(LabelPayload), Complex(BadPayload)},
          schema \in Schemas :
         /\ fn_in' = [NoInput EXCEPT !.op = "to_query", !.query = q,
                                     !.schema = schema]
         /\ fn_out' = [NoOutput EXCEPT !.res = to_query(q, schema)]
    /\ UNCHANGED <<index_vars, cache_vars, column_vars, th, calls, regex_vars, search>>

NextQuery ==
    CallShouldCache \/ CallWeight \/ CallKey \/ CallColumnKey \/ CallToQuery

SpecQuery == Init /\ [][NextQuery]_vars

\* -------------------------------------------- the range-aware regex query
\* Length of the terms the automaton is run on.
MaxInput == 5

\* JSON paths (none, "a", "ab") and the bytes of the terms: 0x00, 'a', 'b',
\* 's'.
Prefixes == {<<>>, <<97>>, <<97, 98>>}
TermBytes == {0, 97, 98, 115}

FromPattern ==
    /\ fn_in = NoInput
    /\ \E p \in Patterns, prefix \in Prefixes :
         /\ fn_in' = [NoInput EXCEPT !.op = "from_pattern", !.pattern = p,
                                     !.prefix = prefix]
         /\ regex_query' = from_pattern(p, prefix)
    /\ UNCHANGED <<index_vars, cache_vars, column_vars, th, calls, fn_out,
                   astate, consumed, search>>

\* The term dictionary is walked with the automaton: start, then one accept
\* per byte.
Start ==
    /\ regex_query.status = "ok"
    /\ astate = NoState
    /\ astate' = start(regex_query.regex)
    /\ consumed' = <<>>
    /\ UNCHANGED <<index_vars, cache_vars, column_vars, th, calls, fn_vars,
                   regex_query, search>>

Accept ==
    /\ astate # NoState
    /\ Len(consumed) < MaxInput
    /\ \E byte \in TermBytes :
         /\ astate' = accept(regex_query.regex, astate, byte)
         /\ consumed' = Append(consumed, byte)
    /\ UNCHANGED <<index_vars, cache_vars, column_vars, th, calls, fn_vars,
                   regex_query, search>>

NextRegex == FromPattern \/ Start \/ Accept

SpecRegex == Init /\ [][NextRegex]_vars

\* ------------------------------------------- the column cache on its own
\* Number of lookups made in one behaviour.
MaxLookups == 3

\* One lookup of the column cache with the segment readers of the searcher.
Lookup(g) ==
    /\ fn_in.op \in {"none"} \cup Getters
    /\ col_hits + col_misses < MaxLookups
    /\ \E i \in 1..Len(reader), f \in Fields :
         LET r == lookup(g, reader[i], f, columns) IN
         /\ columns' = r.cols
         /\ col_hits' = col_hits + (IF r.hit THEN 1 ELSE 0)
         /\ col_misses' = col_misses + (IF r.hit THEN 0 ELSE 1)
         /\ fn_in' = [NoInput EXCEPT !.op = g, !.seg = reader[i], !.field = f]
         /\ fn_out' = [NoOutput EXCEPT !.bool = r.hit, !.col = r.col,
                                       !.asked = r.asked]
    /\ UNCHANGED <<index_vars, cache_vars, th, calls, regex_vars, search>>

GetColumn == Lookup("get_column")

GetBytesColumn == Lookup("get_bytes_column")

GetStrColumn == Lookup("get_str_column")

NextColumn == GetColumn \/ GetBytesColumn \/ GetStrColumn

SpecColumn == Init /\ [][NextColumn]_vars

\* ---------------------------------------------- the collectors on their own
\* A collector is run over segments handed to it directly, as the search of
\* an index does: for_segment, collect for every matching doc, harvest, and
\* merge_fruits at the end.  The columns of a segment are inputs.
\* Docs handed to one segment collector, and segments of one run.
MaxDocs == 2
MaxFruits == 2

SearchLimits == {0, 1, 2, UsizeMax}

SearchCollectors ==
    {PartIdCollector(l) : l \in SearchLimits}
        \cup {PartKeyCollector}
        \cup {PartKeyRecordCollector(l) : l \in SearchLimits}

FastFields == {PART_ID, PART_KEY, START_TIME, END_TIME}

\* The values of the doc-th matching doc of the ord-th segment, when it has
\* them: every doc has values of its own.
PartIdValue(ord, doc) == 70000 * doc + ord + 1
PartKeyValue(ord, doc) == <<65 + ord, 65 + doc>>
StartTimeValue(ord, doc) == 1000 * ord + doc
EndTimeValue(ord, doc) == 1000 * ord + doc + 5

\* What the columns the collector reads may hold for that doc.
DocProjections(coll, ord, doc) ==
    LET pids == IF coll.kind = "PartId"
                THEN {NoVal, <<PartIdValue(ord, doc)>>} ELSE {NoVal}
        keyed == coll.kind \in {"PartKey", "PartKeyRecord"}
        ords == IF keyed THEN {NoVal, <<doc>>} ELSE {NoVal}
        bytes(o) == IF o = NoVal THEN {NoVal}
                    ELSE {NoVal, <<PartKeyValue(ord, doc)>>}
        sts == IF coll.kind = "PartKeyRecord"
               THEN {NoVal, <<StartTimeValue(ord, doc)>>} ELSE {NoVal}
        ets == IF coll.kind = "PartKeyRecord"
               THEN {NoVal, <<EndTimeValue(ord, doc)>>} ELSE {NoVal}
    IN UNION {{Projection(pid, o, b, st, et) :
                  pid \in pids, b \in bytes(o), st \in sts, et \in ets} :
              o \in ords}

\* searcher.search(&query, &collector)
NewSearch ==
    /\ search.pc = "none"
    /\ \E coll \in SearchCollectors :
         search' = [NoSearch EXCEPT !.pc = "segment", !.coll = coll]
    /\ UNCHANGED <<index_vars, cache_vars, column_vars, th, calls, fn_vars,
                   regex_vars>>

\* collector.for_segment(segment_ord, segment_reader)?
ForSegment ==
    /\ search.pc = "segment"
    /\ Len(search.fruits) < MaxFruits
    /\ \E present \in SUBSET FastFields :
         LET r == for_segment(search.coll, present) IN
         search' = IF r.ok
                   THEN [search EXCEPT !.pc = "collecting", !.self = <<>>,
                                       !.fed = <<>>, !.present = present]
                   ELSE [search EXCEPT !.pc = "done", !.present = present,
                                       !.field = r.field,
                                       !.result = [status |-> "err",
                                                   fruit |-> <<>>,
                                                   err |-> r.err]]
    /\ UNCHANGED <<index_vars, cache_vars, column_vars, th, calls, fn_vars,
                   regex_vars>>

\* segment_collector.collect(doc, 0.0)
CollectDoc ==
    /\ search.pc = "collecting"
    /\ Len(search.fed) < MaxDocs
    /\ \E p \in DocProjections(search.coll, Len(search.fruits), Len(search.fed)) :
         search' = [search EXCEPT !.self = collect(search.coll, @, p),
                                  !.fed = Append(@, p)]
    /\ UNCHANGED <<index_vars, cache_vars, column_vars, th, calls, fn_vars,
                   regex_vars>>

\* fruits.push(segment_collector.harvest())
Harvest ==
    /\ search.pc = "collecting"
    /\ search' = [search EXCEPT !.pc = "segment", !.self = <<>>, !.fed = <<>>,
                                !.present = {},
                                !.fruits = push_fruit(@, harvest(search.coll,
                                                                 search.self))]
    /\ UNCHANGED <<index_vars, cache_vars, column_vars, th, calls, fn_vars,
                   regex_vars>>

\* collector.merge_fruits(fruits)
MergeFruits ==
    /\ search.pc = "segment"
    /\ search' = [search EXCEPT !.pc = "done",
                                !.result = [status |-> "ok",
                                            fruit |-> merge_fruits(search.coll,
                                                                   search.fruits),
                                            err |-> ""]]
    /\ UNCHANGED <<index_vars, cache_vars, column_vars, th, calls, fn_vars,
                   regex_vars>>

NextCollect == NewSearch \/ ForSegment \/ CollectDoc \/ Harvest \/ MergeFruits

SpecCollect == Init /\ [][NextCollect]_vars

\* ------------------------------------------------------ the entry points
\* The host calls the entry points of the reader one after the other, on
\* one thread, over an index that does not change.
EntryIndexes ==
    {<<>>, <<1>>, <<2>>, <<1, 2>>, <<2, 1>>, <<1, 3>>, <<FirstSparse>>,
     <<FirstSparse + 1>>, <<FirstSparse + 2>>, <<1, FirstSparse + 2>>}

\* The limits the host passes to queryPartIds, queryPartKeyRecords and
\* queryPartKey.
EntryLimits == {0, 1, 2}

\* let results = handle.execute_cachable_query(query, collector)?
EntryBegin(t, entry, limit, q, coll) ==
    /\ LowestIdle(t)
    /\ calls < MaxCalls
    /\ LET c0 == [Idle EXCEPT !.query = q, !.coll = coll, !.searcher = reader,
                              !.entry = entry, !.limit = limit]
       IN th' = [th EXCEPT ![t] = [c0 EXCEPT !.pc = LoopPc(c0, reader, 0)]]
    /\ calls' = calls + 1
    /\ UNCHANGED <<index_vars, cache_vars, column_vars, fn_vars, regex_vars,
                   search>>

\* searcher.num_docs()
num_docs(rd) ==
    Cardinality({<<i, d>> \in (1..Len(rd)) \X DocIds : d \in DOMAIN SegDocs(rd[i])})

IndexNumEntries(t) ==
    /\ LowestIdle(t)
    /\ calls < MaxCalls
    /\ th' = [th EXCEPT ![t] =
               [Idle EXCEPT !.pc = "done", !.entry = "indexNumEntries",
                            !.searcher = reader,
                            !.ret = <<num_docs(reader)>>,
                            !.result = [status |-> "ok", fruit |-> <<>>,
                                        err |-> ""]]]
    /\ calls' = calls + 1
    /\ UNCHANGED <<index_vars, cache_vars, column_vars, fn_vars, regex_vars,
                   search>>

PartIdsEndedBefore(t) ==
    \E ended_before \in {10} :
        EntryBegin(t, "partIdsEndedBefore", 0, ByEndTime(ended_before),
                   PartIdCollector(UsizeMax))

PartIdFromPartKey(t) ==
    \E bytes \in {<<65>>, <<66>>, <<90>>} :
        EntryBegin(t, "partIdFromPartKey", 0, ByPartKey(bytes),
                   PartIdCollector(1))

QueryPartIds(t) ==
    \E query_bytes \in {LabelPayload, BadPayload}, limit \in EntryLimits \ {0} :
        EntryBegin(t, "queryPartIds", limit, Complex(query_bytes),
                   PartIdCollector(limit))

QueryPartKeyRecords(t) ==
    \E query_bytes \in {LabelPayload, BadPayload}, limit \in EntryLimits \ {0} :
        EntryBegin(t, "queryPartKeyRecords", limit, Complex(query_bytes),
                   PartKeyRecordCollector(limit))

\* The test of the limit of queryPartKey with the comparison dropped.
limit_supported_any(limit) == TRUE

\* if limit != 1 { return Err(...) }
limit_supported(limit) == limit = 1

QueryPartKey(t) ==
    \E query_bytes \in {LabelPayload, BadPayload}, limit \in EntryLimits :
        IF limit_supported(limit)
        THEN EntryBegin(t, "queryPartKey", limit, Complex(query_bytes),
                        PartKeyCollector)
        ELSE /\ LowestIdle(t)
             /\ calls < MaxCalls
             /\ th' = [th EXCEPT ![t] =
                        [Idle EXCEPT !.pc = "done", !.entry = "queryPartKey",
                                     !.limit = limit, !.failed = TRUE,
                                     !.result = [status |-> "err",
                                                 fruit |-> <<>>,
                                                 err |-> "RuntimeException"]]]
             /\ calls' = calls + 1
             /\ UNCHANGED <<index_vars, cache_vars, column_vars, fn_vars,
                            regex_vars, search>>

StartTimeFromPartIds(t) ==
    \E part_ids \in {<<1, 2>>} :
        EntryBegin(t, "startTimeFromPartIds", 0, ByPartIds(part_ids),
                   TimeCollector(START_TIME, UsizeMax))

EndTimeFromPartId(t) ==
    \E part_id \in {1, 3, 9} :
        EntryBegin(t, "endTimeFromPartId", 0, ByPartId(part_id),
                   TimeCollector(END_TIME, 1))

NextEntry ==
    \/ IndexNumEntries(1)
    \/ PartIdsEndedBefore(1)
    \/ PartIdFromPartKey(1)
    \/ QueryPartIds(1)
    \/ QueryPartKeyRecords(1)
    \/ QueryPartKey(1)
    \/ StartTimeFromPartIds(1)
    \/ EndTimeFromPartId(1)
    \/ Probe(1)
    \/ Compile(1)
    \/ Eval(1)
    \/ Collect(1)
    \/ ColInsert(1)
    \/ Merge(1)
    \/ Return(1)

SpecEntry == InitOver(EntryIndexes) /\ [][NextEntry]_vars

\* ------------------------------------- refreshReaders and the ingestion
\* The host ingests documents and refreshes the readers from its threads; no
\* query runs (no step of a query changes what these steps read or write).
NextRefresh ==
    \/ \E t \in Threads : RefreshSwap(t)
    \/ \E t \in Threads : RefreshLock(t)
    \/ \E t \in Threads : RefreshCommit(t)
    \/ \E t \in Threads : RefreshReload(t)
    \/ \E t \in Threads : IndexNumEntries(t)
    \/ \E t \in Threads : Return(t)
    \/ Ingest

SpecRefresh == Init /\ [][NextRefresh]_vars

\* ------------------------------------------------------------ properties
\* The threads that run execute_cachable_query.
InQuery(t) == th[t].query.variant # "None"

Returned(t) == InQuery(t) /\ th[t].pc = "done" /\ th[t].result.status = "ok"

AllHit(t) == \A i \in 1..Len(th[t].probes) : th[t].probes[i].hit

Misses(t) == {i \in 1..Len(th[t].probes) : ~th[t].probes[i].hit}

\* The weight the query compiles to.
CompiledWeight(q) == query_weight_of(to_query(q, HandleSchema).val, HandleSchema).val

\* The docs of the segment that match the query.
ExactMatches(q, s) == Matches(CompiledWeight(q), s)

\* C1: a call invokes to_query at most once however many segments miss, and
\* every missing segment after the first is evaluated with the weight
\* compiled at the first.
C1_CompileAtMostOnce ==
    \A t \in Threads :
        InQuery(t) =>
            /\ th[t].compiles <= 1
            /\ th[t].pc = "eval" =>
                   /\ th[t].compiles = 1
                   /\ th[t].query_weight = CompiledWeight(th[t].query)

\* A returned call in which two segments missed the cache.
C1_Witness ==
    \E t \in Threads :
        Returned(t) /\ Cardinality(Misses(t)) >= 2 /\ th[t].compiles = 1

\* C2: while every probed segment has hit the cache the call has not invoked
\* to_query, so that only the collector can make it fail; when all segments
\* of the snapshot hit and are collected, the call returns the fruit merged
\* from the cached bitsets, also for a Complex query whose payload does not
\* parse.
C2_AllHitsNeverCompile ==
    \A t \in Threads :
        (InQuery(t) /\ AllHit(t)) =>
            /\ th[t].compiles = 0
            /\ th[t].failed => Len(th[t].collected) < Len(th[t].probes)
            /\ ((th[t].pc = "done" /\ ~th[t].failed) =>
                  /\ th[t].result.status = "ok"
                  /\ Len(th[t].collected) = Len(th[t].searcher)
                  /\ th[t].result.fruit =
                        merge_fruits(th[t].coll,
                            [i \in 1..Len(th[t].collected) |->
                                segment_fruit(th[t].coll, th[t].collected[i].seg,
                                              th[t].collected[i].bits)]))

\* A Complex query has returned after every segment of a non-empty snapshot
\* hit the cache.
C2_Witness ==
    \E t \in Threads :
        /\ Returned(t)
        /\ th[t].query.variant = "Complex"
        /\ Len(th[t].probes) >= 1
        /\ AllHit(t)

\* C3: every key stored in the doc-set cache holds a query for which
\* should_cache is true; executing an All, ByPartId or ByPartKey query never
\* adds an entry for that query.
C3_OnlyCachableKeys ==
    \A e \in cache : e.key.query.variant \in {"Complex", "ByPartIds", "ByEndTime"}

\* A query that is not cachable has missed, been evaluated and returned.
C3_Witness ==
    \E t \in Threads :
        /\ Returned(t)
        /\ th[t].query.variant \in {"All", "ByPartId", "ByPartKey"}
        /\ Misses(t) # {}

\* C4: the fruit a call returns is the collector applied, segment by segment,
\* to the docs of the snapshot that match the query, whatever the cache held,
\* accepted, refused or evicted.
C4_FruitIndependentOfCache ==
    \A t \in Threads :
        Returned(t) =>
            th[t].result.fruit =
                merge_fruits(th[t].coll,
                    [i \in 1..Len(th[t].searcher) |->
                        segment_fruit(th[t].coll, th[t].searcher[i],
                                      ExactMatches(th[t].query, th[t].searcher[i]))])

\* A call returned a non-empty fruit from one cached and one evaluated bitset.
C4_Witness ==
    \E t \in Threads :
        /\ Returned(t)
        /\ th[t].result.fruit # <<>>
        /\ ~AllHit(t)
        /\ Misses(t) # DOMAIN th[t].probes

\* C5: when a step of a call fails, the call returns that error at once: the
\* failing segment is the last one visited, merge_fruits is not run and no
\* fruit is returned.
C5_ErrorAbortsCall ==
    \A t \in Threads :
        InQuery(t) =>
            /\ th[t].failed =>
                 /\ th[t].pc = "done"
                 /\ th[t].result.status = "err"
                 /\ th[t].result.fruit = <<>>
                 /\ th[t].merges = 0
                 /\ Len(th[t].probes) = th[t].seg_ord + 1
                 /\ Len(th[t].collected) = th[t].seg_ord
            /\ th[t].result.status = "err" => th[t].failed

\* A call failed at a segment after it had gathered a fruit and before the
\* last segment of its snapshot.
C5_Witness ==
    \E t \in Threads :
        /\ InQuery(t)
        /\ th[t].pc = "done"
        /\ th[t].result.status = "err"
        /\ th[t].fruits # <<>>
        /\ th[t].seg_ord + 1 < Len(th[t].searcher)

\* C6: a call iterates the segments of the searcher it took at its start;
\* a refreshReaders that runs during the call changes neither the segments
\* probed nor the segments the fruits come from.
C6_SnapshotIsolation ==
    \A t \in Threads :
        InQuery(t) =>
            /\ Len(th[t].probes) <= Len(th[t].searcher)
            /\ \A i \in 1..Len(th[t].probes) :
                   th[t].probes[i].seg = th[t].searcher[i]
            /\ \A i \in 1..Len(th[t].collected) :
                   th[t].collected[i].seg = th[t].searcher[i]
            /\ Returned(t) => Len(th[t].fruits) = Len(th[t].searcher)

\* A call returned fruits of its snapshot after a refresh had changed the
\* segments of the reader.
C6_Witness ==
    \E t \in Threads :
        /\ Returned(t)
        /\ th[t].collected # <<>>
        /\ reader # th[t].searcher

\* C7: a successful call visits every segment of the snapshot once, in
\* order, hands collect_segment the position of the segment as ordinal, and
\* calls merge_fruits once with the fruits in segment order.
C7_SegmentOrder ==
    \A t \in Threads :
        InQuery(t) =>
            /\ th[t].merges = (IF Returned(t) THEN 1 ELSE 0)
            /\ Returned(t) =>
                 /\ Len(th[t].collected) = Len(th[t].searcher)
                 /\ Len(th[t].fruits) = Len(th[t].searcher)
                 /\ \A i \in 1..Len(th[t].searcher) :
                      /\ th[t].collected[i].seg = th[t].searcher[i]
                      /\ th[t].collected[i].ord = i - 1
                      /\ th[t].fruits[i] =
                           segment_fruit(th[t].coll, th[t].searcher[i],
                                         th[t].collected[i].bits)
                 /\ th[t].result.fruit = merge_fruits(th[t].coll, th[t].fruits)

\* A call with limit 1 returned from two segments with different fruits.
C7_Witness ==
    \E t \in Threads :
        /\ Returned(t)
        /\ Len(th[t].fruits) >= 2
        /\ th[t].fruits[1] # <<>>
        /\ th[t].fruits[2] # <<>>
        /\ th[t].fruits[1] # th[t].fruits[2]
        /\ th[t].coll.limit = 1

\* C8: the bitset a call holds, from the cache or just inserted, stays
\* allocated and unchanged until the call has collected from it.
C8_HeldBitsetValid ==
    \A t \in Threads :
        th[t].docs # 0 =>
            /\ th[t].docs \in DOMAIN arcs
            /\ arcs[th[t].docs].val = th[t].held

\* A call holds a bitset it got from the cache and the cache no longer has
\* the entry.
C8_Witness ==
    \E t \in Threads :
        /\ th[t].pc = "collect"
        /\ th[t].probes[Len(th[t].probes)].hit
        /\ \A e \in cache : e.ref # th[t].docs

\* The sum of the CachableQueryWeighter weights of the entries held.
RECURSIVE WeightHeld(_)
WeightHeld(entries) ==
    IF entries = {} THEN 0
    ELSE LET e == CHOOSE x \in entries : TRUE
         IN (IF e.ref \in DOMAIN arcs THEN weight(e.key, arcs[e.ref].val) ELSE e.w)
            + WeightHeld(entries \ {e})

\* C9: the weights of the entries held in the doc-set cache never sum to more
\* than 50,000,000.
C9_ByteBudget == WeightHeld(cache) <= 50000000

\* An insertion met a cache that it would have filled beyond the budget.
C9_Witness ==
    \E t \in Threads : th[t].pc = "collect" /\ th[t].overflow

\* C10: should_cache is true exactly for Complex, ByPartIds and ByEndTime and
\* false exactly for All, ByPartId and ByPartKey, whatever the payload.
C10_ShouldCacheTable ==
    fn_in.op = "should_cache" =>
        /\ fn_out.bool = (fn_in.query.variant \in {"Complex", "ByPartIds", "ByEndTime"})
        /\ ~fn_out.bool = (fn_in.query.variant \in {"All", "ByPartId", "ByPartKey"})

\* should_cache was applied to a ByPartKey with an empty payload.
C10_Witness ==
    /\ fn_in.op = "should_cache"
    /\ fn_in.query = ByPartKey(<<>>)
    /\ ~fn_out.bool

\* C11: the owned key made from a probe key has the hash and the components
\* of the probe key, and a probe key is equivalent to a stored key exactly
\* when the segment ids are equal and the queries (for the column cache the
\* field names) are structurally equal.
C11_KeysAgree ==
    /\ fn_in.op = "key" =>
          LET k == CachableQueryKey(fn_in.seg, fn_in.query) IN
          /\ hash_borrowed(k) = hash_owned(fn_out.owned)
          /\ fn_out.owned.seg = fn_in.seg
          /\ fn_out.owned.query = fn_in.query
          /\ fn_out.bool = (/\ fn_in.seg = fn_in.seg2
                            /\ fn_in.query.variant = fn_in.query2.variant
                            /\ fn_in.query.bytes = fn_in.query2.bytes
                            /\ fn_in.query.ids = fn_in.query2.ids
                            /\ fn_in.query.num = fn_in.query2.num)
    /\ fn_in.op = "column_key" =>
          LET k == CacheKey(fn_in.seg, fn_in.field) IN
          /\ hash_column_borrowed(k) = hash_column_owned(fn_out.owned_col)
          /\ fn_out.owned_col.seg = fn_in.seg
          /\ fn_out.owned_col.field = fn_in.field
          /\ fn_out.bool = (fn_in.seg = fn_in.seg2 /\ fn_in.field = fn_in.field2)

\* A probe key met a stored key of the same segment and variant with another
\* payload, and was found not equivalent.
C11_Witness ==
    /\ fn_in.op = "key"
    /\ fn_in.seg = fn_in.seg2
    /\ fn_in.query = Complex(<<1, 0>>)
    /\ fn_in.query2 = Complex(<<0>>)
    /\ ~fn_out.bool

\* The payload bytes of a key: the heap data of the boxed slice and the box.
PayloadBytes(q) ==
    CASE q.variant \in {"Complex", "ByPartKey"} -> Len(q.bytes) + 16
      [] q.variant = "ByPartIds" -> 4 * Len(q.ids) + 16
      [] q.variant \in {"All", "ByPartId", "ByEndTime"} -> 0

\* ceil(n / 64)
CeilDiv64(n) == IF n % 64 = 0 THEN n \div 64 ELSE (n \div 64) + 1

\* C12 as stated: the weight is key_struct_size + payload_bytes +
\* ceil((max_value + 1) / 64) * 8.
C12_Original ==
    fn_in.op = "weight" =>
        fn_out.num = 32 + PayloadBytes(fn_in.query)
                        + CeilDiv64(fn_in.max_value + 1) * 8

\* C12: the weight is key_struct_size + payload_bytes + bitset_bytes with
\* bitset_bytes = ceil(max_value / 64) * 8 (0 for max_value = 0, 8 for
\* max_value = 64), payload_bytes being len(b) + box_overhead for Complex and
\* ByPartKey, 4 * len(v) + box_overhead for ByPartIds and 0 for All, ByPartId
\* and ByEndTime.
C12_WeightFormula ==
    fn_in.op = "weight" =>
        fn_out.num = 32 + PayloadBytes(fn_in.query)
                        + CeilDiv64(fn_in.max_value) * 8

\* The weight of a ByPartIds key with a bitset whose max_value is a multiple
\* of 64.
C12_Witness ==
    /\ fn_in.op = "weight"
    /\ fn_in.query = ByPartIds(<<1, 2>>)
    /\ fn_in.max_value = 64
    /\ fn_out.num = 64

\* C13: with a bitset of max_value 1, Complex([1,0]) and ByPartKey([1,0])
\* weigh 58, All, ByPartId(0) and ByEndTime(0) weigh 40, and ByPartIds([1,2])
\* weighs 64, which is 8 + box_overhead more than ByEndTime(0).
C13_TestWeights ==
    (fn_in.op = "weight" /\ fn_in.max_value = 1) =>
        /\ fn_in.query \in {Complex(<<1, 0>>), ByPartKey(<<1, 0>>)} => fn_out.num = 58
        /\ fn_in.query \in {All, ByPartId(0), ByEndTime(0)} => fn_out.num = 40
        /\ fn_in.query = ByPartIds(<<1, 2>>) =>
              /\ fn_out.num = 64
              /\ fn_out.num = weight(OwnedKey(CachableQueryKey(fn_in.seg, ByEndTime(0))),
                                     MkBitSet({}, 1)) + 8 + BoxOverhead

\* The weight of ByPartIds([1,2]) with a bitset of max_value 1.
C13_Witness ==
    /\ fn_in.op = "weight"
    /\ fn_in.max_value = 1
    /\ fn_in.query = ByPartIds(<<1, 2>>)
    /\ fn_out.num = 64

\* C14: to_query gives each variant its query: Complex what the parser
\* returns, ByPartKey a term query on PART_KEY with the bytes, ByPartIds a
\* term-set query on PART_ID with one i64 term per id, ByPartId a term query
\* on PART_ID with the id as i64, ByEndTime(t) the range [0, t] on END_TIME
\* with both ends included, All the match-all query.
C14_QueryShapes ==
    fn_in.op = "to_query" =>
        LET q == fn_in.query
            r == fn_out.res
        IN
        /\ q.variant = "Complex" => r = parse_query(q.bytes, fn_in.schema)
        /\ (q.variant = "ByPartKey" /\ r.ok) =>
              r.val.kind = "TermQuery" /\ r.val.field = PART_KEY
              /\ r.val.bterm = q.bytes /\ r.val.iterms = <<>>
        /\ (q.variant = "ByPartIds" /\ r.ok) =>
              /\ r.val.kind = "TermSetQuery" /\ r.val.field = PART_ID
              /\ Len(r.val.iterms) = Len(q.ids)
              /\ \A i \in 1..Len(q.ids) : r.val.iterms[i] = q.ids[i]
        /\ (q.variant = "ByPartId" /\ r.ok) =>
              r.val.kind = "TermQuery" /\ r.val.field = PART_ID
              /\ r.val.iterms = <<q.num>> /\ r.val.bterm = <<>>
        /\ q.variant = "ByEndTime" =>
              r.ok /\ r.val.kind = "RangeQuery" /\ r.val.field = END_TIME
              /\ r.val.lo = 0 /\ r.val.hi = q.num
        /\ q.variant = "All" => r.ok /\ r.val.kind = "AllQuery"

\* to_query built the term set of ByPartIds([2,1]), the terms in the order
\* of the ids.
C14_Witness ==
    /\ fn_in.op = "to_query"
    /\ fn_in.schema = HandleSchema
    /\ fn_in.query = ByPartIds(<<2, 1>>)
    /\ fn_out.res.ok
    /\ fn_out.res.val.iterms = <<2, 1>>

\* The failures of to_query on the variants that look their field up in the
\* schema, and on a malformed Complex payload.
LookupFailures(q, schema, r) ==
    /\ (q.variant = "ByPartKey" /\ PART_KEY \notin schema) =>
          ~r.ok /\ r.err = "SchemaFieldNotFound"
    /\ (q.variant \in {"ByPartIds", "ByPartId"} /\ PART_ID \notin schema) =>
          ~r.ok /\ r.err = "SchemaFieldNotFound"
    /\ q = Complex(BadPayload) => ~r.ok /\ r.err = "ParseError"

\* C15 as stated: to_query fails with schema-field-not-found when the
\* reserved field of the variant is absent, END_TIME for ByEndTime included.
C15_Original ==
    fn_in.op = "to_query" =>
        /\ LookupFailures(fn_in.query, fn_in.schema, fn_out.res)
        /\ (fn_in.query.variant = "ByEndTime" /\ END_TIME \notin fn_in.schema) =>
              ~fn_out.res.ok /\ fn_out.res.err = "SchemaFieldNotFound"

\* C15: to_query fails with schema-field-not-found when PART_KEY is absent
\* for ByPartKey or PART_ID is absent for ByPartIds and ByPartId, and with the
\* parser's error for a malformed Complex payload; for ByEndTime it looks no
\* field up and succeeds also when END_TIME is absent from the schema.
C15_ToQueryFailures ==
    fn_in.op = "to_query" =>
        /\ LookupFailures(fn_in.query, fn_in.schema, fn_out.res)
        /\ fn_in.query.variant = "ByEndTime" =>
              fn_out.res.ok /\ fn_out.res.val.field = END_TIME

\* to_query failed on a ByPartIds query with a schema that lacks PART_ID.
C15_Witness ==
    /\ fn_in.op = "to_query"
    /\ fn_in.query = ByPartIds(<<1, 2>>)
    /\ PART_ID \notin fn_in.schema
    /\ ~fn_out.res.ok
    /\ fn_out.res.err = "SchemaFieldNotFound"

\* C16: the order of the ids is part of the key: ByPartIds([1,2]) and
\* ByPartIds([2,1]) are different queries, the cache holds one entry per
\* (segment, query) so that the two have entries of their own, and the entry
\* a probe returns is the entry of exactly the probing query.
C16_OrderSensitiveKeys ==
    /\ ByPartIds(<<1, 2>>) # ByPartIds(<<2, 1>>)
    /\ \A e1, e2 \in cache : e1.key = e2.key => e1 = e2
    /\ \A t \in Threads :
          InQuery(t) =>
              \A i \in 1..Len(th[t].probes) :
                  th[t].probes[i].hit =>
                      /\ th[t].probes[i].key.seg = th[t].probes[i].seg
                      /\ th[t].probes[i].key.query = th[t].query

\* The cache holds, for one segment, an entry of ByPartIds([1,2]) and an
\* entry of ByPartIds([2,1]), and the call that made the second missed.
C16_Witness ==
    \E e1, e2 \in cache : \E t \in Threads :
        /\ e1.key.seg = e2.key.seg
        /\ e1.key.query = ByPartIds(<<1, 2>>)
        /\ e2.key.query = ByPartIds(<<2, 1>>)
        /\ th[t].query = ByPartIds(<<2, 1>>)
        /\ \E i \in 1..Len(th[t].probes) :
              th[t].probes[i].seg = e1.key.seg /\ ~th[t].probes[i].hit

\* The inner state reached from inner.start() by the bytes of w.
RECURSIVE InnerRunFrom(_, _, _)
InnerRunFrom(p, st, w) ==
    IF w = <<>> THEN st
    ELSE InnerRunFrom(p, inner_accept(p, st, Head(w)), Tail(w))

InnerRun(p, w) == InnerRunFrom(p, inner_start(p), w)

\* C17: with prefix_size = k, is_match is false in every state reached from
\* start() by fewer than k bytes, and after k bytes followed by w it is
\* inner.is_match of the inner state reached from inner.start() by w alone.
C17_SkipPrefix ==
    astate # NoState =>
        LET A == regex_query.regex
            k == A.prefix_size
            n == Len(consumed)
        IN /\ n < k => ~is_match(A, astate)
           /\ n >= k =>
                is_match(A, astate) =
                    inner_is_match(A.inner, InnerRun(A.inner, SubSeq(consumed, k + 1, n)))

\* After the three bytes of the prefix a\0s the term continues with ab, which
\* the inner automaton of ab* matches, while it does not match the whole term.
C17_Witness ==
    /\ astate # NoState
    /\ regex_query.regex.prefix_size = 3
    /\ consumed = <<97, 0, 115, 97, 98>>
    /\ is_match(regex_query.regex, astate)
    /\ ~inner_is_match(regex_query.regex.inner,
                       InnerRun(regex_query.regex.inner, consumed))

\* C18: from_pattern with an empty prefix builds the identity wrapper:
\* prefix_size is 0 and is_match, can_match and will_always_match are those of
\* the inner automaton on every input; with a prefix it sets prefix_size to
\* len(prefix) + 2, the two bytes being 0x00 and 's' that follow the prefix
\* in the terms of the JSON path.
C18_FromPattern ==
    (fn_in.op = "from_pattern" /\ regex_query.status = "ok") =>
        LET A == regex_query.regex
            inner == InnerRun(A.inner, consumed)
        IN
        /\ A.inner = fn_in.pattern
        /\ fn_in.prefix = <<>> =>
              /\ A.prefix_size = 0
              /\ regex_query.prefix = <<>>
              /\ astate # NoState =>
                    /\ is_match(A, astate) = inner_is_match(A.inner, inner)
                    /\ can_match(A, astate) = inner_can_match(A.inner, inner)
                    /\ will_always_match(A, astate)
                          = inner_will_always_match(A.inner, inner)
        /\ fn_in.prefix # <<>> =>
              /\ A.prefix_size = Len(fn_in.prefix) + 2
              /\ regex_query.prefix = fn_in.prefix \o <<0, 115>>
              /\ A.prefix_size = Len(regex_query.prefix)

\* The query of the JSON path ab: four bytes are skipped, and the automaton
\* has skipped exactly the stored prefix ab\0s.
C18_Witness ==
    /\ fn_in.op = "from_pattern"
    /\ fn_in.prefix = <<97, 98>>
    /\ regex_query.status = "ok"
    /\ regex_query.regex.prefix_size = 4
    /\ consumed = regex_query.prefix
    /\ astate.count = 4

\* C19: a lookup of a column the segment has, by the getter of its type,
\* counts one miss and stores the reader when the cache does not hold the
\* key, counts one hit and changes nothing when it does, and returns the
\* reader of that column both times; two such lookups in a row on a new
\* cache leave the counters at 1 miss and 1 hit.
C19_MissThenHit ==
    [][(/\ fn_in'.op \in Getters
        /\ fn_in'.field \in SegColumns(fn_in'.seg)
        /\ FieldType(fn_in'.field) = GetterType(fn_in'.op)) =>
          LET key == [seg |-> fn_in'.seg, field |-> fn_in'.field] IN
          /\ fn_out'.col = <<[seg |-> key.seg, field |-> key.field,
                              ty |-> GetterType(fn_in'.op)]>>
          /\ IF key \in columns
             THEN /\ fn_out'.bool
                  /\ col_hits' = col_hits + 1
                  /\ col_misses' = col_misses
                  /\ columns' = columns
             ELSE /\ ~fn_out'.bool
                  /\ col_misses' = col_misses + 1
                  /\ col_hits' = col_hits
                  /\ columns' = columns \cup {key}
          /\ (col_hits + col_misses = 1 /\ fn_in.op = fn_in'.op
               /\ fn_in.seg = fn_in'.seg /\ fn_in.field = fn_in'.field) =>
                 col_misses' = 1 /\ col_hits' = 1
      ]_vars

\* get_str_column was called twice for COL1 of one segment: 1 miss, 1 hit,
\* and the second call returned the cached reader.
C19_Witness ==
    /\ fn_in.op = "get_str_column"
    /\ fn_in.field = COL1
    /\ fn_out.bool
    /\ fn_out.col # <<>>
    /\ col_misses = 1
    /\ col_hits = 1
    /\ columns = {[seg |-> fn_in.seg, field |-> COL1]}

\* C20: a lookup of a field the segment has no column for returns none,
\* leaves the keys of the cache as they were, and is a miss that asks the
\* segment, the first time and every time after.
C20_NoNegativeEntry ==
    [][(fn_in'.op \in Getters /\ fn_in'.field \notin SegColumns(fn_in'.seg)) =>
          /\ fn_out'.col = <<>>
          /\ columns' = columns
          /\ ~fn_out'.bool
          /\ fn_out'.asked
          /\ col_misses' = col_misses + 1
          /\ col_hits' = col_hits
          /\ \A e \in columns' : e.field \in SegColumns(e.seg)
      ]_vars

\* The same absent column was looked up three times: three misses, no hit,
\* nothing cached.
C20_Witness ==
    /\ fn_in.op = "get_column"
    /\ fn_in.field \notin SegColumns(fn_in.seg)
    /\ fn_out.col = <<>>
    /\ col_misses = 3
    /\ col_hits = 0
    /\ columns = {}

\* The first n elements of a sequence.
Prefix(seq, n) == SubSeq(seq, 1, Min(n, Len(seq)))

\* The docs handed to the segment collector that have a PART_ID value.
WithPartId(fed) == SelectSeq(fed, LAMBDA p : p.part_id # NoVal)

\* C21: PartIdSegmentCollector.collect appends the (i32) PART_ID value of a
\* doc only while fewer than limit ids were collected in the segment and
\* skips, without error, a doc that has no value: what the segment collector
\* holds is the values of the docs handed to it that have one, in the order
\* they were handed over, cut to the first limit of them; no segment fruit is
\* longer than limit.  (All values lie in the i32 range, so narrowing leaves
\* them as they are.)
C21_PartIdSegmentFruit ==
    search.coll.kind = "PartId" =>
        LET have == WithPartId(search.fed)
            values == [i \in 1..Len(have) |-> have[i].part_id[1]]
        IN /\ search.pc = "collecting" =>
                /\ search.self = Prefix(values, search.coll.limit)
                /\ Len(search.self) <= search.coll.limit
                /\ search.result.status = "none"
           /\ \A i \in 1..Len(search.fruits) :
                /\ Len(search.fruits[i]) <= search.coll.limit
                /\ \A j \in 1..Len(search.fruits[i]) :
                     \E d \in 0..(MaxDocs - 1) :
                        /\ search.fruits[i][j] = PartIdValue(i - 1, d)
                        /\ j > 1 => search.fruits[i][j - 1] < search.fruits[i][j]

\* Witness: with limit 1, two docs that both have a part id were handed to
\* the segment collector and only the first was kept; and a segment fruit cut
\* at the limit was harvested before.
C21_Witness ==
    /\ search.coll = PartIdCollector(1)
    /\ search.pc = "collecting"
    /\ Len(search.fed) = 2
    /\ search.fed[1].part_id # NoVal
    /\ search.fed[2].part_id # NoVal
    /\ search.self = <<PartIdValue(1, 0)>>
    /\ search.fruits = <<<<PartIdValue(0, 1)>>>>

\* The segment fruits one after the other.
RECURSIVE Concat(_)
Concat(seqs) == IF seqs = <<>> THEN <<>> ELSE Head(seqs) \o Concat(Tail(seqs))

\* C22: merge_fruits of PartIdCollector and of PartKeyRecordCollector returns
\* the segment fruits concatenated in segment order and cut to the first limit
\* elements: the result has min(limit, sum of the lengths) elements, never
\* more than limit, and before every segment the partial result is no longer
\* than limit, so limit - result.len() does not underflow.
C22_MergeWithinLimit ==
    (search.pc = "done" /\ search.result.status = "ok"
        /\ search.coll.kind \in {"PartId", "PartKeyRecord"}) =>
        LET limit == search.coll.limit
            all == Concat(search.fruits)
        IN /\ search.result.fruit = Prefix(all, limit)
           /\ Len(search.result.fruit) = Min(limit, Len(all))
           /\ Len(search.result.fruit) <= limit
           /\ \A k \in 0..(Len(search.fruits) - 1) :
                Len(MergeLoop(SubSeq(search.fruits, 1, k), limit, <<>>)) <= limit

\* Witness: with limit 2 the fruits <<1>> and <<2, 70002>> were merged: the
\* second fruit was cut after its first element.
C22_Witness ==
    /\ search.pc = "done"
    /\ search.coll = PartIdCollector(2)
    /\ search.fruits = <<<<PartIdValue(0, 0)>>,
                         <<PartIdValue(1, 0), PartIdValue(1, 1)>>>>
    /\ search.result.fruit = <<PartIdValue(0, 0), PartIdValue(1, 0)>>

\* The docs handed to the segment collector whose part key can be read: the
\* ordinal is there and ord_to_bytes succeeds.
WithPartKey(fed) == SelectSeq(fed, LAMBDA p : p.ord # NoVal /\ p.bytes # NoVal)

\* C23 as stated: the segment collector looks at the first doc handed to it
\* only; when the part key of that doc cannot be read the segment yields
\* None.
C23_Original ==
    (search.coll.kind = "PartKey" /\ search.pc = "collecting"
        /\ search.fed # <<>>) =>
        search.self = IF WithPartKey(<<search.fed[1]>>) # <<>>
                      THEN <<search.fed[1].bytes[1]>>
                      ELSE NoVal

\* C23: PartKeySegmentCollector keeps the part key of the first doc handed to
\* it whose ordinal is there and resolves to bytes, and ignores every doc
\* after that one; a doc whose ordinal is missing or does not resolve is
\* skipped without an error, so the segment yields None exactly when no doc
\* handed to it has a readable part key.
C23_FirstReadablePartKey ==
    (search.coll.kind = "PartKey" /\ search.pc = "collecting") =>
        LET readable == WithPartKey(search.fed) IN
        /\ search.self = IF readable = <<>> THEN NoVal
                         ELSE <<readable[1].bytes[1]>>
        /\ search.result.status = "none"

\* Witness: the first doc has an ordinal that does not resolve, the second
\* one is readable and its part key is what the segment collector holds.
C23_Witness ==
    /\ search.coll.kind = "PartKey"
    /\ search.pc = "collecting"
    /\ Len(search.fed) = 2
    /\ search.fed[1].ord # NoVal
    /\ search.fed[1].bytes = NoVal
    /\ search.self = <<PartKeyValue(Len(search.fruits), 1)>>

\* C24: PartKeyCollector.merge_fruits returns the fruit of the first segment,
\* in segment order, whose fruit is a part key, and None exactly when every
\* segment fruit is None, which includes a search over no segment at all.
C24_FirstSegmentWins ==
    (search.pc = "done" /\ search.result.status = "ok"
        /\ search.coll.kind = "PartKey") =>
        LET some == {i \in 1..Len(search.fruits) : search.fruits[i] # NoVal} IN
        /\ some # {} =>
             \E i \in some : /\ \A j \in some : i <= j
                             /\ search.result.fruit = search.fruits[i]
        /\ (search.result.fruit = NoVal) = (some = {})

\* Witness: two segments yielded a part key each and the merged fruit is the
\* one of the first segment.
C24_Witness ==
    /\ search.pc = "done"
    /\ search.coll.kind = "PartKey"
    /\ search.fruits = <<<<PartKeyValue(0, 1)>>, <<PartKeyValue(1, 0)>>>>
    /\ search.result.fruit = <<PartKeyValue(0, 1)>>

\* The docs handed to the segment collector for which the part key, the start
\* time and the end time can all be read.
Complete(fed) ==
    SelectSeq(fed, LAMBDA p : /\ p.ord # NoVal /\ p.bytes # NoVal
                              /\ p.start_time # NoVal /\ p.end_time # NoVal)

\* C25: PartKeyRecordSegmentCollector.collect emits the record
\* {part_key, start_time, end_time} of a doc only while fewer than limit
\* records were collected and only when all three projections resolve; a doc
\* with a missing projection is skipped without an error and without using up
\* the limit: the segment collector holds the records of the complete docs
\* handed to it, in order, cut to limit.
C25_CompleteRecordsOnly ==
    (search.coll.kind = "PartKeyRecord" /\ search.pc = "collecting") =>
        LET complete == Complete(search.fed)
            records == [i \in 1..Len(complete) |->
                           PartKeyRecord(complete[i].bytes[1],
                                         complete[i].start_time[1],
                                         complete[i].end_time[1])]
        IN /\ search.self = Prefix(records, search.coll.limit)
           /\ search.result.status = "none"

\* Witness: with limit 1 the first doc lacks its end time and was skipped, the
\* second one is complete and its record was emitted.
C25_Witness ==
    /\ search.coll = PartKeyRecordCollector(1)
    /\ search.pc = "collecting"
    /\ Len(search.fed) = 2
    /\ search.fed[1].bytes # NoVal
    /\ search.fed[1].start_time # NoVal
    /\ search.fed[1].end_time = NoVal
    /\ search.self = <<PartKeyRecord(PartKeyValue(Len(search.fruits), 1),
                                     StartTimeValue(Len(search.fruits), 1),
                                     EndTimeValue(Len(search.fruits), 1))>>

\* The columns each of the three collectors needs in a segment.
ColumnsNeeded(coll) ==
    CASE coll.kind = "PartId" -> {PART_ID}
      [] coll.kind = "PartKey" -> {PART_KEY}
      [] coll.kind = "PartKeyRecord" -> {PART_KEY, START_TIME, END_TIME}
      [] OTHER -> {}

\* C26: for_segment of PartIdCollector, PartKeyCollector and
\* PartKeyRecordCollector fails with FieldNotFound, naming a column the
\* segment lacks, whenever a column the collector needs is absent from the
\* segment, and that error fails the whole execute_cachable_query call: a
\* segment is collected only when it has every needed column, a call that
\* succeeds met no segment lacking one, and a call that met one ends in the
\* error with no fruit for that segment, no merge and no value returned.
C26_MissingColumnFails ==
    \A t \in Threads :
        LET c == th[t]
            needed == ColumnsNeeded(c.coll)
        IN c.coll.kind \in {"PartId", "PartKey", "PartKeyRecord"} =>
            /\ \A i \in 1..Len(c.collected) :
                 needed \subseteq SegColumns(c.collected[i].seg)
            /\ (c.pc = "done" /\ c.result.status = "ok") =>
                 \A i \in 1..Len(c.searcher) :
                    needed \subseteq SegColumns(c.searcher[i])
            /\ c.result.err = "FieldNotFound" =>
                 /\ c.pc = "done"
                 /\ c.result.status = "err"
                 /\ c.field \in needed
                 /\ c.field \notin SegColumns(c.searcher[c.seg_ord + 1])
                 /\ Len(c.fruits) = c.seg_ord
                 /\ c.result.fruit = <<>>
                 /\ c.merges = 0
                 /\ c.ret = NoVal
            /\ (c.pc = "done" /\ c.result.err # "FieldNotFound") => c.field = ""

\* Witness: queryPartKeyRecords over a segment that has every column and one
\* without END_TIME: the first segment was collected, for_segment of the
\* second opened PART_KEY and START_TIME and failed on END_TIME, and the call
\* ended in that error.
C26_Witness ==
    /\ th[1].pc = "done"
    /\ th[1].coll.kind = "PartKeyRecord"
    /\ th[1].searcher = <<1, FirstSparse + 2>>
    /\ th[1].result.err = "FieldNotFound"
    /\ th[1].field = END_TIME
    /\ th[1].opened = 2
    /\ Len(th[1].fruits) = 1

\* C27: refreshReaders swaps changes_pending to false in one step; it
\* acquires the writer lock and commits, before it reloads the reader, exactly
\* when the swap returned true; when the swap returned false it only reloads
\* and never acquires the writer lock.
C27_CommitIffPending ==
    /\ [](\A t \in Threads :
            LET c == th[t] IN
            c.entry = "refreshReaders" =>
               /\ c.swapped \in {<<TRUE>>, <<FALSE>>}
               /\ c.locked => c.swapped = <<TRUE>>
               /\ writer_lock = t => c.locked
               /\ c.commits > 0 => c.locked
               /\ c.swapped = <<FALSE>> =>
                    /\ c.pc \in {"r_reload", "done"}
                    /\ ~c.locked
                    /\ c.commits = 0
               /\ (c.swapped = <<TRUE>>
                     /\ (c.pc = "r_reload"
                           \/ (c.pc = "done" /\ c.result.status = "ok"))) =>
                    /\ c.locked
                    /\ c.commits = 1)
    /\ [][/\ \A t \in Threads :
               (th[t].pc = "idle" /\ th'[t].entry = "refreshReaders") =>
                  /\ th'[t].swapped = <<changes_pending>>
                  /\ changes_pending' = FALSE
          /\ reader' # reader =>
               /\ reader' = committed
               /\ \E t \in Threads : /\ th[t].pc = "r_reload"
                                      /\ th'[t].pc = "done"
         ]_vars

\* Witness: one call swapped true out, locked, committed and reloaded; the
\* other swapped false out and reloaded without the lock and without a
\* commit.
C27_Witness ==
    /\ th[1].entry = "refreshReaders"
    /\ th[1].swapped = <<TRUE>>
    /\ th[1].pc = "done"
    /\ th[1].result.status = "ok"
    /\ th[1].commits = 1
    /\ th[2].entry = "refreshReaders"
    /\ th[2].swapped = <<FALSE>>
    /\ th[2].pc = "done"
    /\ th[2].result.status = "ok"
    /\ ~th[2].locked

\* C28: when a refreshReaders call returns successfully, every batch of
\* documents ingested before the call began is in the segments of the reader,
\* so indexNumEntries and the queries issued afterwards see it; also when
\* several refreshReaders calls run at the same time.
C28_RefreshMakesVisible ==
    \A t \in Threads :
        (th[t].entry = "refreshReaders" /\ th[t].pc = "done"
            /\ th[t].result.status = "ok") =>
            /\ Len(reader) >= th[t].ingested
            /\ num_docs(reader) >= num_docs([i \in 1..th[t].ingested |-> i])

\* C29: queryPartKey called with a limit other than 1 returns an error before
\* any query is executed: no searcher snapshot is taken, to_query is not
\* invoked, no cache is probed, and the doc-set cache and the column cache
\* keep their contents and their counters.
C29_LimitCheckedFirst ==
    /\ [](\A t \in Threads :
            (th[t].entry = "queryPartKey" /\ th[t].limit # 1) =>
               /\ th[t].pc = "done"
               /\ th[t].result.status = "err"
               /\ th[t].result.err = "RuntimeException"
               /\ th[t].searcher = <<>>
               /\ th[t].compiles = 0
               /\ th[t].probes = <<>>
               /\ th[t].collected = <<>>
               /\ th[t].merges = 0
               /\ th[t].ret = NoVal)
    /\ [][\A t \in Threads :
            (th'[t].entry = "queryPartKey" /\ th'[t].limit # 1
                /\ th'[t] # th[t]) =>
               /\ th[t].pc = "idle"
               /\ UNCHANGED <<cache, arcs, hits, misses, columns, col_hits,
                              col_misses, reader>>
         ]_vars

\* Witness: after a query that filled both caches, queryPartKey was called
\* with limit 2 over a reader with segments and has ended in the error.
C29_Witness ==
    /\ th[1].entry = "queryPartKey"
    /\ th[1].limit = 2
    /\ th[1].pc = "done"
    /\ th[1].result.err = "RuntimeException"
    /\ reader # <<>>
    /\ cache # {}
    /\ columns # {}
    /\ misses > 0

C31_AcceptPhases ==
    /\ [](astate # NoState =>
            /\ astate.count <= regex_query.regex.prefix_size
            /\ astate.count < regex_query.regex.prefix_size =>
                  astate.inner = inner_start(regex_query.regex.inner))
    /\ [][(astate # NoState /\ Len(consumed') = Len(consumed) + 1) =>
            LET A == regex_query.regex
                byte == consumed'[Len(consumed')]
            IN IF astate.count < A.prefix_size
               THEN /\ astate'.count = astate.count + 1
                    /\ astate'.inner = astate.inner
               ELSE /\ astate'.count = astate.count
                    /\ astate'.inner = inner_accept(A.inner, astate.inner, byte)]_vars

\* Both phases have happened: the three bytes of the prefix a\0s were
\* counted without touching the inner state, and the fourth byte advanced
\* the inner automaton of the pattern a while count stayed at 3.
C31_Witness ==
    /\ astate # NoState
    /\ regex_query.regex.prefix_size = 3
    /\ regex_query.regex.inner = "a"
    /\ consumed = <<98, 98, 98, 97>>
    /\ astate.count = 3
    /\ astate.inner = <<1>>

\* C32: while a state is in the prefix-skip phase (count < prefix_size, that
\* is while fewer than prefix_size bytes have been read) can_match is true
\* and will_always_match is false whatever the inner automaton says; once
\* count >= prefix_size both are the inner automaton's answers on the inner
\* state.
C32_SkipPhaseVerdicts ==
    astate # NoState =>
        LET A == regex_query.regex IN
        /\ (astate.count < A.prefix_size) = (Len(consumed) < A.prefix_size)
        /\ astate.count < A.prefix_size =>
              /\ can_match(A, astate)
              /\ ~will_always_match(A, astate)
        /\ astate.count >= A.prefix_size =>
              /\ can_match(A, astate) = inner_can_match(A.inner, astate.inner)
              /\ will_always_match(A, astate)
                    = inner_will_always_match(A.inner, astate.inner)

\* Two bytes into the three-byte prefix of a query of the pattern .* the
\* inner automaton already says it will always match, and the wrapper says it
\* will not.
C32_Witness ==
    /\ astate # NoState
    /\ regex_query.regex.inner = ".*"
    /\ regex_query.regex.prefix_size = 3
    /\ Len(consumed) = 2
    /\ inner_will_always_match(regex_query.regex.inner, astate.inner)
    /\ ~will_always_match(regex_query.regex, astate)
    /\ can_match(regex_query.regex, astate)

\* The state the automaton reaches from state by the bytes of w.
RECURSIVE RunFrom(_, _, _)
RunFrom(A, state, w) ==
    IF w = <<>> THEN state
    ELSE RunFrom(A, accept(A, state, Head(w)), Tail(w))

\* The three answers of the automaton on a state.
Verdict(A, state) ==
    <<is_match(A, state), can_match(A, state), will_always_match(A, state)>>

\* The terms that differ from w only within their first k bytes.
PrefixVariants(w, k) ==
    LET m == IF Len(w) < k THEN Len(w) ELSE k
    IN {pre \o SubSeq(w, m + 1, Len(w)) : pre \in [1..m -> TermBytes]}

\* C33: the verdict of the automaton on a term does not depend on the values
\* of the first prefix_size bytes of the term, only on their number: every
\* term that differs from the one read only within its first prefix_size
\* bytes reaches a state with the same is_match, can_match and
\* will_always_match.
C33_PrefixBytesIgnored ==
    astate # NoState =>
        LET A == regex_query.regex IN
        /\ astate = RunFrom(A, start(A), consumed)
        /\ \A other \in PrefixVariants(consumed, A.prefix_size) :
              Verdict(A, RunFrom(A, start(A), other)) = Verdict(A, astate)

\* The query was built for the JSON path a (prefix a\0s), the term read
\* starts with bbb instead, and the automaton matches it all the same.
C33_Witness ==
    /\ astate # NoState
    /\ regex_query.prefix = <<97, 0, 115>>
    /\ regex_query.regex.prefix_size = 3
    /\ Len(consumed) = 4
    /\ SubSeq(consumed, 1, 3) = <<98, 98, 98>>
    /\ is_match(regex_query.regex, astate)

\* The bitset of the docs of segment s that match query q.
ExactBitSet(q, s) == [bits |-> ExactMatches(q, s), max_value |-> max_doc(s)]

\* C34: under any interleaving of execute_cachable_query calls and
\* refreshReaders, every entry of the doc-set cache keyed (segment, query)
\* holds exactly the docs of that segment that match that query; the bitset a
\* call has bound for a segment, from the cache or evaluated by itself, is
\* that set too, so that two calls that miss on one key insert equal bitsets,
\* and a call that fails after inserting leaves only such entries behind.
C34_CacheEntriesExact ==
    /\ \A e \in cache :
          /\ e.ref \in DOMAIN arcs
          /\ arcs[e.ref].val = ExactBitSet(e.key.query, e.key.seg)
    /\ \A t \in Threads :
          th[t].docs # 0 =>
              th[t].held = ExactBitSet(th[t].query,
                                       th[t].searcher[th[t].seg_ord + 1])

\* Two calls of one cachable query both missed on the first segment and both
\* evaluated and inserted; the first then failed on a later segment, and the
\* cache still holds the entry of that key.
C34_Witness ==
    /\ th[1].query = th[2].query
    /\ th[1].query.variant \in {"Complex", "ByPartIds", "ByEndTime"}
    /\ Len(th[1].probes) >= 2
    /\ Len(th[2].probes) >= 1
    /\ ~th[1].probes[1].hit
    /\ ~th[2].probes[1].hit
    /\ th[1].probes[1].seg = th[2].probes[1].seg
    /\ th[2].pc = "collect"
    /\ th[2].seg_ord = 0
    /\ th[1].pc = "done"
    /\ th[1].failed
    /\ \E e \in cache :
          e.key = CachableQueryKey(th[1].probes[1].seg, th[1].query)

\* The probes thread t made in the step, none when the step is its return.
ProbesMade(t) ==
    IF th'[t].pc = "idle" \/ ~InQuery(t) THEN 0
    ELSE Len(th'[t].probes) - Len(th[t].probes)

\* C35: every segment visited by execute_cachable_query is probed exactly
\* once in the doc-set cache, so hits + misses grows by exactly the number of
\* segments visited and neither counter ever decreases; a query whose
\* should_cache is false is probed all the same and each of its probes counts
\* as a miss.
C35_OneProbePerSegment ==
    /\ [](\A t \in Threads :
            InQuery(t) =>
               /\ Len(th[t].probes) =
                     th[t].seg_ord
                       + (IF th[t].pc \in {"probe", "merge"} \/ Returned(t)
                          THEN 0 ELSE 1)
               /\ \A i \in 1..Len(th[t].probes) :
                     /\ th[t].probes[i].seg = th[t].searcher[i]
                     /\ ~should_cache(th[t].query) => ~th[t].probes[i].hit)
    /\ [][/\ hits' >= hits
          /\ misses' >= misses
          /\ \E t \in Threads :
                /\ (hits' + misses') - (hits + misses) = ProbesMade(t)
                /\ \A u \in Threads \ {t} : ProbesMade(u) = 0]_vars

\* A call of a query that is not cachable returned after visiting two
\* segments: it made two probes, both misses, and the counters show them.
C35_Witness ==
    \E t \in Threads :
        /\ Returned(t)
        /\ th[t].query.variant \in {"All", "ByPartId", "ByPartKey"}
        /\ Len(th[t].searcher) = 2
        /\ Len(th[t].probes) = 2
        /\ misses >= 2

\* The segment has a column of field f of the shape getter g asks for.
DirectLookup(g, s, f) == f \in SegColumns(s) /\ FieldType(f) = GetterType(g)

InRefresh(t) == th[t].entry = "refreshReaders"

\* The step is the swap of a refreshReaders call of thread t.
SwapStep(t) == th[t].pc = "idle" /\ th'[t].entry = "refreshReaders"

\* C37: the swap of changes_pending is one step: the call that observes true
\* leaves the flag false, so of several refreshReaders calls that run after
\* the flag was set once exactly one observes true and commits; only
\* ingestion raises the flag, and no step of a call past its swap touches
\* it, so a flag raised after the swap of a call is still true for the next
\* refreshReaders.
C37_SwapIsAtomic ==
    /\ [](\A t \in Threads :
            InRefresh(t) =>
               /\ th[t].swapped # NoVal
               /\ th[t].commits <= 1
               /\ th[t].commits = 1 => th[t].swapped = <<TRUE>>
               /\ (th[t].pc = "done" /\ th[t].result.status = "ok") =>
                     (th[t].commits = 1) = (th[t].swapped = <<TRUE>>))
    /\ [][/\ \A t \in Threads :
               SwapStep(t) => /\ th'[t].swapped = <<changes_pending>>
                              /\ ~changes_pending'
          /\ (changes_pending /\ ~changes_pending') =>
                \E t \in Threads :
                    /\ SwapStep(t)
                    /\ \A u \in Threads \ {t} : th'[u] = th[u]
          /\ (~changes_pending /\ changes_pending') =>
                (th' = th /\ writer_dirty')
          /\ \A t \in Threads :
                (InRefresh(t) /\ th'[t] # th[t]) =>
                    changes_pending' = changes_pending]_vars

\* Two refreshReaders calls ran after one set of the flag: the first
\* observed true and committed, the second observed false and is still
\* running, and an ingestion after both swaps has raised the flag again.
C37_Witness ==
    /\ th[1].entry = "refreshReaders"
    /\ th[2].entry = "refreshReaders"
    /\ th[1].swapped = <<TRUE>>
    /\ th[2].swapped = <<FALSE>>
    /\ th[1].commits = 1
    /\ th[2].commits = 0
    /\ th[2].pc = "r_reload"
    /\ changes_pending

\* C38: when acquiring the writer lock or the commit fails inside
\* refreshReaders, the call returns the error without reloading the reader
\* and leaves the handle as it was before the call: changes_pending is true
\* again, so that the next refreshReaders retries the commit.
C38_FailureRestoresPending ==
    \A t \in Threads :
        (/\ InRefresh(t)
         /\ th[t].pc = "done"
         /\ th[t].result.status = "err"
         /\ th[t].swapped = <<TRUE>>
         /\ th[t].commits = 0) =>
            changes_pending

====
